---- MODULE Spec2Model ----
(***************************************************************************)
(* Recurrence expansion (src/app/lib/recurrence.ts) and cashflow           *)
(* projection (src/app/components/CashflowCalendar.tsx).                   *)
(*                                                                         *)
(* Strings are sequences of UTF-16 code units, so that formatting,         *)
(* parsing, concatenation and the lexicographic comparison of dates are    *)
(* computed and not assumed.  A JavaScript Date that sits at UTC midnight  *)
(* is represented by its day number since 1970-01-01 (the time value       *)
(* divided by 86400000; every Date built by the modelled code is at UTC    *)
(* midnight).  An optional field is <<>> when absent and <<v>> when set.   *)
(* Amounts are integers.                                                   *)
(***************************************************************************)
EXTENDS Integers, Sequences, FiniteSets, TLC

VARIABLES
    data,       \* CalendarData: startingBalance, transactions, rules
    year,       \* target year
    month,      \* target month, zero based
    results,    \* value returned by the last generateOccurrencesForMonth call
    phase,      \* "idle": not called yet, "called": called once for this
                \* month, "recalled": called again with the same arguments
    snapshots,  \* value returned by computeSnapshots, <<>> before the call
    previous,   \* history: the occurrences returned for the month displayed
                \* before the last navigation (a caller that keeps them)
    state,      \* the page's AppState: currentYear, currentMonth,
                \* transactions, startingBalanceByMonth, recurringRules
    dialogOpen,           \* the transaction dialog is shown
    editingTransaction,   \* <<>> (null) or <<the transaction in the dialog>>
    recurringForm,        \* <<>> ({}) or <<the rule in the rule form>>
    storage,    \* what localStorage holds under cashflow_calendar_v1
    zoneWest,   \* the browser's zone is west of Greenwich
    uuids,      \* how many ids crypto.randomUUID has handed out
    occurrences, \* <<>> or <<the value returned by generateRecurringOccurrences>>
    rendered,   \* <<>> or <<what renderCalendar and the footer computed>>
    localStorage, \* window.localStorage: storage key -> stored text
    effects,    \* CashflowCalendar: the effects of the last render still to run
    queued,     \* CashflowCalendar: <<>> or <<the data passed to a setData not yet rendered>>
    left,       \* history: month key -> the data shown when the month was left
    dataOf,     \* history: <<>> or <<the key of the month `data` was loaded for>>
    now,        \* Date.now(), in ticks
    tables,     \* Supabase: the rows of transactions, recurring_rules, app_settings
    imports,    \* Basiq import: each POST request's position and remaining work
    importCall, \* SupabaseStorage.importData: the call's position, argument, result
    user,       \* BasiqProvider: useAuth's user is set
    accessToken, \* BasiqProvider: <<>> (null) or <<the Basiq token>>
    loading,    \* BasiqProvider: loading
    error,      \* BasiqProvider: <<>> (null) or <<the message>>
    inflight,   \* BasiqProvider: the fetches that await their response
    effectPending, \* BasiqProvider: the last render changed the effect's dependencies
    autoRequests,  \* history: requests issued by the auto-authenticate effect
    failedSinceAction \* history: a request failed and the user has not acted since

expanderVars == <<data, year, month, results, phase, snapshots, previous>>
componentVars == <<localStorage, effects, queued, left, dataOf, now>>
dbVars == <<tables, imports, importCall>>
basiqVars == <<user, accessToken, loading, error, inflight, effectPending, autoRequests,
               failedSinceAction>>
remoteVars == <<dbVars, basiqVars>>
auxVars == <<occurrences, rendered, componentVars, remoteVars>>
calendarVars == <<expanderVars, auxVars>>
pageVars == <<state, dialogOpen, editingTransaction, recurringForm, storage, zoneWest, uuids>>
localVars == <<expanderVars, pageVars, occurrences, rendered, componentVars>>
vars == <<calendarVars, pageVars>>

----------------------------------------------------------------------------
(* Bounds *)

MaxRules == 2
MaxTxns == 2

----------------------------------------------------------------------------
(* Characters and strings *)

ChDash == 45
ChZero == 48
ChR == 114
ChA == 97

\* Number.prototype.toString().padStart(w, "0") as toISOString uses it.
Pad(n, w) == [i \in 1..w |-> ChZero + ((n \div (10 ^ (w - i))) % 10)]

RECURSIVE ParseDigits(_)
ParseDigits(s) ==
    IF s = <<>> THEN 0
    ELSE 10 * ParseDigits(SubSeq(s, 1, Len(s) - 1)) + (s[Len(s)] - ChZero)

\* a < b on JavaScript strings: lexicographic on code units.
RECURSIVE StrLess(_, _)
StrLess(a, b) ==
    IF b = <<>> THEN FALSE
    ELSE IF a = <<>> THEN TRUE
    ELSE IF Head(a) < Head(b) THEN TRUE
    ELSE IF Head(a) > Head(b) THEN FALSE
    ELSE StrLess(Tail(a), Tail(b))

\* NaN, the time value of an Invalid Date: every comparison with it is false
\* and every arithmetic operation on it gives it again.
NaN == -9999999
IsNaN(x) == x = NaN

\* JavaScript %, whose result takes the sign of the dividend.
JsRem(a, b) ==
    IF IsNaN(a) THEN NaN ELSE IF a >= 0 THEN a % b ELSE 0 - ((0 - a) % b)

Min(a, b) == IF a <= b THEN a ELSE b

----------------------------------------------------------------------------
(* The Date object, proleptic Gregorian calendar, UTC *)

\* Day number of civil date y-m-d, m in 1..12, d any integer.
DaysFromCivil(y, m, d) ==
    LET yy == IF m <= 2 THEN y - 1 ELSE y
        era == yy \div 400
        yoe == yy - era * 400
        mp == (m + 9) % 12
        doy == ((153 * mp + 2) \div 5) + d - 1
        doe == yoe * 365 + (yoe \div 4) - (yoe \div 100) + doy
    IN  era * 146097 + doe - 719468

\* Civil date of a day number.
CivilFromDays(z) ==
    LET zz == z + 719468
        era == zz \div 146097
        doe == zz - era * 146097
        yoe == (doe - (doe \div 1460) + (doe \div 36524) - (doe \div 146096)) \div 365
        doy == doe - (365 * yoe + (yoe \div 4) - (yoe \div 100))
        mp == (5 * doy + 2) \div 153
        d == doy - ((153 * mp + 2) \div 5) + 1
        m == IF mp < 10 THEN mp + 3 ELSE mp - 9
    IN  [y |-> IF m <= 2 THEN yoe + era * 400 + 1 ELSE yoe + era * 400,
         m |-> m, d |-> d]

\* Date.UTC(year, monthZeroBased, day): month and day overflow are carried.
DateUTC(y, m0, d) == DaysFromCivil(y + (m0 \div 12), (m0 % 12) + 1, d)

GetUTCFullYear(t) == CivilFromDays(t).y
GetUTCMonth(t) == CivilFromDays(t).m - 1
GetUTCDate(t) == CivilFromDays(t).d
\* 1970-01-01 was a Thursday.
GetUTCDay(t) == (t + 4) % 7

\* Comparisons and subtraction of time values, one of which may be NaN.
JsLt(a, b) == ~IsNaN(a) /\ ~IsNaN(b) /\ a < b
JsLe(a, b) == ~IsNaN(a) /\ ~IsNaN(b) /\ a <= b
JsGt(a, b) == ~IsNaN(a) /\ ~IsNaN(b) /\ a > b
JsGe(a, b) == ~IsNaN(a) /\ ~IsNaN(b) /\ a >= b
JsMinus(a, b) == IF IsNaN(a) \/ IsNaN(b) THEN NaN ELSE a - b

IsDigit(c) == c >= ChZero /\ c <= ChZero + 9

\* Does s read YYYY-MM-DD with a month of 01..12 and a day of 01..31?
IsIsoDate(s) ==
    /\ Len(s) = 10
    /\ \A i \in {1, 2, 3, 4, 6, 7, 9, 10} : IsDigit(s[i])
    /\ s[5] = ChDash /\ s[8] = ChDash
    /\ ParseDigits(SubSeq(s, 6, 7)) \in 1..12
    /\ ParseDigits(SubSeq(s, 9, 10)) \in 1..31

\* new Date(s + "T00:00:00Z"): the day number of a YYYY-MM-DD string, and an
\* Invalid Date for any other text.
ParseIsoDate(s) ==
    IF IsIsoDate(s)
    THEN DaysFromCivil(ParseDigits(SubSeq(s, 1, 4)),
                       ParseDigits(SubSeq(s, 6, 7)),
                       ParseDigits(SubSeq(s, 9, 10)))
    ELSE NaN

\* isoDate of types.ts: toISOString().slice(0, 10).
isoDate(y, m0, d) ==
    LET c == CivilFromDays(DateUTC(y, m0, d))
    IN  Pad(c.y, 4) \o <<ChDash>> \o Pad(c.m, 2) \o <<ChDash>> \o Pad(c.d, 2)

\* Mutant of getDaysInMonth: new Date(year, monthZeroBased, 0), the length of
\* the month before.
getDaysInMonthBefore(y, m0) == GetUTCDate(DateUTC(y, m0, 0))

\* new Date(year, monthZeroBased + 1, 0).getDate(): built and read in the
\* same (local) zone, hence the day of month of the last day of the month.
getDaysInMonth(y, m0) == GetUTCDate(DateUTC(y, m0 + 1, 0))

\* Mutant of clampDay: the day is not clamped to the month's last day.
clampDayUnclamped(y, m0, day) == day

clampDay(y, m0, day) ==
    LET last == GetUTCDate(DateUTC(y, m0 + 1, 0))
    IN  Min(day, last)

----------------------------------------------------------------------------
(* generateOccurrencesForMonth, src/app/lib/recurrence.ts *)

Present(opt) == opt /= <<>>

\* The text of an undefined value in a string concatenation: "undefined".
Undefined == <<117, 110, 100, 101, 102, 105, 110, 101, 100>>

\* rule.start as the template of ruleStart reads it: the field's text, and
\* the text of undefined for a rule object that carries no field of that name.
StartText(rule) == IF "start" \in DOMAIN rule THEN rule.start ELSE Undefined

\* rule.end ? ... : undefined  -- a missing field, an absent or an empty
\* string is falsy.
HasEnd(rule) == "end" \in DOMAIN rule /\ Present(rule.end) /\ rule.end[1] /= <<>>

\* Mutant of OccurrenceId: only the day of the month goes into the id.
OccurrenceIdDayOnly(ruleId, dateStr) ==
    <<ChR, ChDash>> \o ruleId \o <<ChDash>> \o SubSeq(dateStr, 9, 10)

\* `r-${rule.id}-${dateStr}`
OccurrenceId(ruleId, dateStr) == <<ChR, ChDash>> \o ruleId \o <<ChDash>> \o dateStr

\* Mutant of Occurrence: every occurrence is written as an expense.
OccurrenceAsExpense(rule, dateStr) ==
    [id |-> OccurrenceId(rule.id, dateStr),
     date |-> dateStr,
     type |-> "expense",
     amount |-> rule.amount,
     note |-> rule.note,
     source |-> "recurring",
     ruleId |-> <<rule.id>>]

Occurrence(rule, dateStr) ==
    [id |-> OccurrenceId(rule.id, dateStr),
     date |-> dateStr,
     type |-> rule.type,
     amount |-> rule.amount,
     note |-> rule.note,
     source |-> "recurring",
     ruleId |-> <<rule.id>>]

\* Mutant of MonthlyOccurrences: the start date is excluded (> for >=).
MonthlyOccurrencesAfterStart(rule, y, m0, ruleStart) ==
    LET day == clampDay(y, m0, IF Present(rule.dayOfMonth) THEN rule.dayOfMonth[1] ELSE 1)
        dateStr == isoDate(y, m0, day)
        dateObj == ParseIsoDate(dateStr)
    IN  IF JsGt(dateObj, ruleStart) /\ (~HasEnd(rule) \/ JsLe(dateObj, ParseIsoDate(rule.end[1])))
        THEN <<Occurrence(rule, dateStr)>>
        ELSE <<>>

\* Mutant of MonthlyOccurrences: the rule's start date is not tested.
MonthlyOccurrencesNoStart(rule, y, m0, ruleStart) ==
    LET day == clampDay(y, m0, IF Present(rule.dayOfMonth) THEN rule.dayOfMonth[1] ELSE 1)
        dateStr == isoDate(y, m0, day)
        dateObj == ParseIsoDate(dateStr)
    IN  IF ~HasEnd(rule) \/ JsLe(dateObj, ParseIsoDate(rule.end[1]))
        THEN <<Occurrence(rule, dateStr)>>
        ELSE <<>>

\* The monthly branch: zero or one occurrence.
MonthlyOccurrences(rule, y, m0, ruleStart) ==
    LET day == clampDay(y, m0, IF Present(rule.dayOfMonth) THEN rule.dayOfMonth[1] ELSE 1)
        dateStr == isoDate(y, m0, day)
        dateObj == ParseIsoDate(dateStr)
    IN  IF JsGe(dateObj, ruleStart) /\ (~HasEnd(rule) \/ JsLe(dateObj, ParseIsoDate(rule.end[1])))
        THEN <<Occurrence(rule, dateStr)>>
        ELSE <<>>

\* while (current < start) current.setUTCDate(current.getUTCDate() + 7)
RECURSIVE FastForward(_, _)
FastForward(current, start) ==
    IF current < start THEN FastForward(current + 7, start) ELSE current

\* Mutant of WeeklyLoop: the cadence test forgets diffDays >= 0.
RECURSIVE WeeklyLoopAnySign(_, _, _, _, _, _)
WeeklyLoopAnySign(rule, current, start, end, ruleStart, interval) ==
    IF current <= end
    THEN LET currentDateStr == isoDate(GetUTCFullYear(current), GetUTCMonth(current),
                                       GetUTCDate(current))
             currentDateObj == ParseIsoDate(currentDateStr)
             diffDays == JsMinus(currentDateObj, ruleStart)
             push == /\ JsRem(diffDays, interval) = 0
                     /\ currentDateObj >= start
                     /\ currentDateObj <= end
                     /\ (~HasEnd(rule) \/ JsLe(currentDateObj, ParseIsoDate(rule.end[1])))
         IN  (IF push THEN <<Occurrence(rule, currentDateStr)>> ELSE <<>>)
             \o WeeklyLoopAnySign(rule, current + 7, start, end, ruleStart, interval)
    ELSE <<>>

\* Mutant of WeeklyLoop: the rule's end date is not tested.
RECURSIVE WeeklyLoopNoEnd(_, _, _, _, _, _)
WeeklyLoopNoEnd(rule, current, start, end, ruleStart, interval) ==
    IF current <= end
    THEN LET currentDateStr == isoDate(GetUTCFullYear(current), GetUTCMonth(current),
                                       GetUTCDate(current))
             currentDateObj == ParseIsoDate(currentDateStr)
             diffDays == JsMinus(currentDateObj, ruleStart)
             push == /\ JsGe(diffDays, 0) /\ JsRem(diffDays, interval) = 0
                     /\ currentDateObj >= start
                     /\ currentDateObj <= end
         IN  (IF push THEN <<Occurrence(rule, currentDateStr)>> ELSE <<>>)
             \o WeeklyLoopNoEnd(rule, current + 7, start, end, ruleStart, interval)
    ELSE <<>>

\* Mutant of WeeklyLoop: every date on the weekday is kept, whatever its
\* distance from the start date.
RECURSIVE WeeklyLoopNoCadence(_, _, _, _, _, _)
WeeklyLoopNoCadence(rule, current, start, end, ruleStart, interval) ==
    IF current <= end
    THEN LET currentDateStr == isoDate(GetUTCFullYear(current), GetUTCMonth(current),
                                       GetUTCDate(current))
             currentDateObj == ParseIsoDate(currentDateStr)
             push == /\ currentDateObj >= start
                     /\ currentDateObj <= end
                     /\ (~HasEnd(rule) \/ JsLe(currentDateObj, ParseIsoDate(rule.end[1])))
         IN  (IF push THEN <<Occurrence(rule, currentDateStr)>> ELSE <<>>)
             \o WeeklyLoopNoCadence(rule, current + 7, start, end, ruleStart, interval)
    ELSE <<>>

\* while (current <= end) { ... current.setUTCDate(current.getUTCDate() + 7) }
RECURSIVE WeeklyLoop(_, _, _, _, _, _)
WeeklyLoop(rule, current, start, end, ruleStart, interval) ==
    IF current <= end
    THEN LET currentDateStr == isoDate(GetUTCFullYear(current), GetUTCMonth(current),
                                       GetUTCDate(current))
             currentDateObj == ParseIsoDate(currentDateStr)
             diffDays == JsMinus(currentDateObj, ruleStart)
             matchesCadence == JsGe(diffDays, 0) /\ JsRem(diffDays, interval) = 0
             push == /\ matchesCadence
                     /\ currentDateObj >= start
                     /\ currentDateObj <= end
                     /\ (~HasEnd(rule) \/ JsLe(currentDateObj, ParseIsoDate(rule.end[1])))
         IN  (IF push THEN <<Occurrence(rule, currentDateStr)>> ELSE <<>>)
             \o WeeklyLoop(rule, current + 7, start, end, ruleStart, interval)
    ELSE <<>>

\* Mutant of WeeklyOccurrences: the interval is 7 days for every frequency.
WeeklyOccurrencesEvery7(rule, y, m0, start, end, ruleStart) ==
    LET weekday == IF Present(rule.weekday) THEN rule.weekday[1] ELSE 1
        firstOfMonth == DateUTC(y, m0, 1)
        firstWeekdayOffset == JsRem(weekday - GetUTCDay(firstOfMonth) + 7, 7)
        first == firstOfMonth + firstWeekdayOffset
    IN  WeeklyLoop(rule, FastForward(first, start), start, end, ruleStart, 7)

\* Mutant of WeeklyOccurrences: a missing weekday defaults to Sunday.
WeeklyOccurrencesDefaultSunday(rule, y, m0, start, end, ruleStart) ==
    LET weekday == IF Present(rule.weekday) THEN rule.weekday[1] ELSE 0
        firstOfMonth == DateUTC(y, m0, 1)
        firstWeekdayOffset == JsRem(weekday - GetUTCDay(firstOfMonth) + 7, 7)
        first == firstOfMonth + firstWeekdayOffset
        interval == IF rule.frequency = "weekly" THEN 7 ELSE 14
    IN  WeeklyLoop(rule, FastForward(first, start), start, end, ruleStart, interval)

\* Mutant of WeeklyOccurrences: the dates walked are those on the weekday of
\* the start date, whatever the weekday field says.
WeeklyOccurrencesOnStartDay(rule, y, m0, start, end, ruleStart) ==
    LET weekday == GetUTCDay(ruleStart)
        firstOfMonth == DateUTC(y, m0, 1)
        firstWeekdayOffset == JsRem(weekday - GetUTCDay(firstOfMonth) + 7, 7)
        first == firstOfMonth + firstWeekdayOffset
        interval == IF rule.frequency = "weekly" THEN 7 ELSE 14
    IN  WeeklyLoop(rule, FastForward(first, start), start, end, ruleStart, interval)

\* The weekly / fortnightly branch.
WeeklyOccurrences(rule, y, m0, start, end, ruleStart) ==
    LET weekday == IF Present(rule.weekday) THEN rule.weekday[1] ELSE 1
        firstOfMonth == DateUTC(y, m0, 1)
        firstWeekdayOffset == JsRem(weekday - GetUTCDay(firstOfMonth) + 7, 7)
        first == firstOfMonth + firstWeekdayOffset
        interval == IF rule.frequency = "weekly" THEN 7 ELSE 14
    IN  WeeklyLoop(rule, FastForward(first, start), start, end, ruleStart, interval)

\* Mutant of RuleOccurrences: the active flag is not tested.
RuleOccurrencesIgnoringActive(rule, y, m0) ==
    LET start == DateUTC(y, m0, 1)
        end == DateUTC(y, m0 + 1, 0)
        ruleStart == ParseIsoDate(StartText(rule))
    IN  IF HasEnd(rule) /\ JsLt(ParseIsoDate(rule.end[1]), start) THEN <<>>
        ELSE IF JsGt(ruleStart, end) THEN <<>>
        ELSE IF rule.frequency = "monthly"
             THEN MonthlyOccurrences(rule, y, m0, ruleStart)
        ELSE IF rule.frequency \in {"weekly", "fortnightly"}
             THEN WeeklyOccurrences(rule, y, m0, start, end, ruleStart)
        ELSE <<>>

\* One iteration of `for (const rule of rules)`: what the rule pushes.
RuleOccurrences(rule, y, m0) ==
    LET start == DateUTC(y, m0, 1)
        end == DateUTC(y, m0 + 1, 0)
        ruleStart == ParseIsoDate(StartText(rule))
    IN  IF ~rule.active THEN <<>>
        ELSE IF HasEnd(rule) /\ JsLt(ParseIsoDate(rule.end[1]), start) THEN <<>>
        ELSE IF JsGt(ruleStart, end) THEN <<>>
        ELSE IF rule.frequency = "monthly"
             THEN MonthlyOccurrences(rule, y, m0, ruleStart)
        ELSE IF rule.frequency \in {"weekly", "fortnightly"}
             THEN WeeklyOccurrences(rule, y, m0, start, end, ruleStart)
        ELSE <<>>

RECURSIVE PushAll(_, _, _)
PushAll(ruleList, y, m0) ==
    IF ruleList = <<>> THEN <<>>
    ELSE RuleOccurrences(Head(ruleList), y, m0) \o PushAll(Tail(ruleList), y, m0)

\* (a, b) => (a.date < b.date ? -1 : a.date > b.date ? 1 : 0)
CompareDate(a, b) ==
    IF StrLess(a.date, b.date) THEN -1 ELSE IF StrLess(b.date, a.date) THEN 1 ELSE 0

\* Mutant of InsertSorted: an element goes before the elements equal to it.
RECURSIVE InsertSortedBeforeEqual(_, _)
InsertSortedBeforeEqual(s, x) ==
    IF s = <<>> THEN <<x>>
    ELSE IF CompareDate(x, Head(s)) <= 0 THEN <<x>> \o s
    ELSE <<Head(s)>> \o InsertSortedBeforeEqual(Tail(s), x)

\* Array.prototype.sort is stable (ECMAScript 2019): an element goes after
\* every element that does not compare greater than it.
RECURSIVE InsertSorted(_, _)
InsertSorted(s, x) ==
    IF s = <<>> THEN <<x>>
    ELSE IF CompareDate(x, Head(s)) < 0 THEN <<x>> \o s
    ELSE <<Head(s)>> \o InsertSorted(Tail(s), x)

RECURSIVE SortByDate(_)
SortByDate(s) ==
    IF s = <<>> THEN <<>>
    ELSE InsertSorted(SortByDate(SubSeq(s, 1, Len(s) - 1)), s[Len(s)])

\* Mutant of generateOccurrencesForMonth: the results array outlives the call.
generateOccurrencesForMonthKeeping(ruleList, y, m0) ==
    SortByDate(results \o PushAll(ruleList, y, m0))

generateOccurrencesForMonth(ruleList, y, m0) == SortByDate(PushAll(ruleList, y, m0))

----------------------------------------------------------------------------
(* computeSnapshots, src/app/components/CashflowCalendar.tsx *)

\* Mutant of SumDelta: every amount is added, whatever its type.
RECURSIVE SumDeltaUnsigned(_)
SumDeltaUnsigned(s) ==
    IF s = <<>> THEN 0
    ELSE SumDeltaUnsigned(SubSeq(s, 1, Len(s) - 1)) + s[Len(s)].amount

\* todays.reduce((acc, t) => acc + (t.type === "income" ? t.amount : -t.amount), 0)
RECURSIVE SumDelta(_)
SumDelta(s) ==
    IF s = <<>> THEN 0
    ELSE SumDelta(SubSeq(s, 1, Len(s) - 1))
         + (IF s[Len(s)].type = "income" THEN s[Len(s)].amount ELSE 0 - s[Len(s)].amount)

\* Mutant of DayLoop: the running balance is floored at zero.
RECURSIVE DayLoopClamped(_, _, _, _, _, _)
DayLoopClamped(all, y, m0, day, days, running) ==
    IF day <= days
    THEN LET dateStr == isoDate(y, m0, day)
             SameDate(t) == t.date = dateStr
             delta == SumDelta(SelectSeq(all, SameDate))
             next == IF running + delta < 0 THEN 0 ELSE running + delta
         IN  <<[date |-> dateStr, dailyDelta |-> delta, runningBalance |-> next]>>
             \o DayLoopClamped(all, y, m0, day + 1, days, next)
    ELSE <<>>

\* for (let day = 1; day <= days; day++) { ... }
RECURSIVE DayLoop(_, _, _, _, _, _)
DayLoop(all, y, m0, day, days, running) ==
    IF day <= days
    THEN LET dateStr == isoDate(y, m0, day)
             SameDate(t) == t.date = dateStr
             delta == SumDelta(SelectSeq(all, SameDate))
         IN  <<[date |-> dateStr, dailyDelta |-> delta, runningBalance |-> running + delta]>>
             \o DayLoop(all, y, m0, day + 1, days, running + delta)
    ELSE <<>>

\* Mutant of computeSnapshots: the stored transactions dated before the month
\* are carried into the opening balance.
computeSnapshotsCarrying(d, y, m0) ==
    LET occ == generateOccurrencesForMonth(d.rules, y, m0)
        InMonth(t) == LET dt == ParseIsoDate(t.date)
                      IN  ~IsNaN(dt) /\ GetUTCFullYear(dt) = y /\ GetUTCMonth(dt) = m0
        Before(t) == JsLt(ParseIsoDate(t.date), DateUTC(y, m0, 1))
        manual == SelectSeq(d.transactions, InMonth)
        all == SortByDate(occ \o manual)
    IN  DayLoop(all, y, m0, 1, getDaysInMonth(y, m0),
                d.startingBalance + SumDelta(SelectSeq(d.transactions, Before)))

\* Mutant of computeSnapshots: the running balance starts at zero.
computeSnapshotsFromZero(d, y, m0) ==
    LET occ == generateOccurrencesForMonth(d.rules, y, m0)
        InMonth(t) == LET dt == ParseIsoDate(t.date)
                      IN  ~IsNaN(dt) /\ GetUTCFullYear(dt) = y /\ GetUTCMonth(dt) = m0
        manual == SelectSeq(d.transactions, InMonth)
        all == SortByDate(occ \o manual)
    IN  DayLoop(all, y, m0, 1, getDaysInMonth(y, m0), 0)

\* let running = data.startingBalance; the transactions of the month are the
\* generated occurrences and the stored ones whose date parses into it.
computeSnapshots(d, y, m0) ==
    LET occ == generateOccurrencesForMonth(d.rules, y, m0)
        InMonth(t) == LET dt == ParseIsoDate(t.date)
                      IN  ~IsNaN(dt) /\ GetUTCFullYear(dt) = y /\ GetUTCMonth(dt) = m0
        manual == SelectSeq(d.transactions, InMonth)
        all == SortByDate(occ \o manual)
    IN  DayLoop(all, y, m0, 1, getDaysInMonth(y, m0), d.startingBalance)

----------------------------------------------------------------------------
(* Inputs *)

\* The ISO string of the calendar date y-m-d (m in 1..12).
D(y, m, d) == isoDate(y, m - 1, d)

\* Rule ids are opaque strings; the ones used here contain '-' and date-like
\* text: "a", "a-2024-01-01", "a-2024-01-01-2024-01-01", ...
RECURSIVE RuleIdAt(_)
RuleIdAt(i) == IF i <= 1 THEN <<ChA>> ELSE RuleIdAt(i - 1) \o <<ChDash>> \o D(2024, 1, 1)

\* Manual transaction ids "m-1", "m-2", ...
TxnIdAt(i) == <<109, ChDash, ChZero + i>>

Rule(type, amount, frequency, weekday, dayOfMonth, start, end, active) ==
    [id |-> RuleIdAt(1), type |-> type, amount |-> amount, note |-> <<>>,
     frequency |-> frequency, weekday |-> weekday, dayOfMonth |-> dayOfMonth,
     start |-> start, end |-> end, active |-> active]

\* A rule of the shape types.ts declares for CalendarData.rules: its dates
\* are in startDate and endDate, and it has no field named start or end.
TypedRule(type, amount, frequency, weekday, dayOfMonth, startDate, endDate, active) ==
    [id |-> RuleIdAt(1), type |-> type, amount |-> amount, note |-> <<>>,
     frequency |-> frequency, weekday |-> weekday, dayOfMonth |-> dayOfMonth,
     startDate |-> startDate, endDate |-> endDate, active |-> active]

Manual(type, amount, date) ==
    [id |-> TxnIdAt(1), date |-> date, type |-> type, amount |-> amount,
     note |-> <<>>, source |-> "manual", ruleId |-> <<>>]

StartDates ==
    {D(2023, 1, 1), D(2023, 12, 25), D(2024, 1, 1), D(2024, 1, 3),
     D(2024, 1, 10), D(2024, 2, 29)}

EndOpts == {<<>>, <<D(2022, 12, 31)>>, <<D(2024, 1, 15)>>, <<D(2024, 1, 31)>>}

DayOfMonthOpts == {<<>>} \cup {<<n>> : n \in {-1, 0, 1, 15, 28, 29, 31, 32}}

WeekdayOpts == {<<>>} \cup {<<n>> : n \in {0, 1, 3, 4}}

\* Every shape of a single active rule, and the inactive rules.
RichRules ==
    {Rule("expense", 50, "monthly", <<>>, dom, s, e, TRUE) :
        dom \in DayOfMonthOpts, s \in StartDates, e \in EndOpts}
    \cup
    {Rule("expense", 50, f, wd, <<>>, s, e, TRUE) :
        f \in {"weekly", "fortnightly"}, wd \in WeekdayOpts,
        s \in StartDates, e \in EndOpts}
    \cup
    {Rule("expense", 50, "monthly", <<>>, dom, D(2024, 1, 1), <<>>, FALSE) :
        dom \in DayOfMonthOpts}
    \cup
    {Rule("expense", 50, f, wd, <<>>, D(2024, 1, 1), <<>>, FALSE) :
        f \in {"weekly", "fortnightly"}, wd \in WeekdayOpts}

\* Rules whose end date is before their start date, both in January 2024.
ReversedRules ==
    {Rule("expense", 50, "monthly", <<>>, dom, D(2024, 1, 10), <<D(2024, 1, 5)>>, TRUE) :
        dom \in {<<1>>, <<15>>}}
    \cup
    {Rule("expense", 50, f, wd, <<>>, D(2024, 1, 10), <<D(2024, 1, 5)>>, TRUE) :
        f \in {"weekly", "fortnightly"}, wd \in {<<1>>, <<3>>}}

SalaryRule == Rule("income", 3000, "monthly", <<>>, <<1>>, D(2023, 1, 1), <<>>, TRUE)

\* A few rules that meet on the same days, for lists of several rules.
CoreRules ==
    {SalaryRule,
     Rule("expense", 50, "monthly", <<>>, <<31>>, D(2023, 1, 1), <<>>, TRUE),
     Rule("expense", 40, "monthly", <<>>, <<1>>, D(2023, 1, 1), <<>>, FALSE),
     Rule("expense", 20, "weekly", <<1>>, <<>>, D(2024, 1, 1), <<>>, TRUE),
     Rule("expense", 100, "fortnightly", <<>>, <<>>, D(2024, 1, 1), <<>>, TRUE)}

ManualTxns ==
    {Manual("expense", 200, D(2024, 3, 5)),
     Manual("income", 70, D(2024, 3, 5)),
     Manual("expense", 2000, D(2024, 2, 29)),
     Manual("income", 5, D(2023, 3, 5))}

\* Lists of at most n rules of S, the i-th rule carrying the i-th rule id.
RuleLists(S, n) ==
    UNION {{[i \in 1..k |-> [f[i] EXCEPT !.id = RuleIdAt(i)]] : f \in [1..k -> S]} : k \in 0..n}

\* Lists of at most n transactions of S, the i-th carrying the i-th id.
TxnLists(S, n) ==
    UNION {{[i \in 1..k |-> [f[i] EXCEPT !.id = TxnIdAt(i)]] : f \in [1..k -> S]} : k \in 0..n}

\* Target months (year, zero-based month): both kinds of February, months of
\* 30 and 31 days, a year boundary, and the century years.
RuleMonths == {<<2023, 11>>, <<2024, 0>>, <<2024, 1>>}
CoreMonths == {<<2023, 1>>, <<2024, 0>>, <<2024, 1>>, <<2024, 3>>}
CenturyMonths == {<<1900, 1>>, <<2000, 1>>, <<2100, 1>>}
SnapshotMonths == {<<2024, 1>>, <<2024, 2>>}
NavMonths == {<<2023, 11>>, <<2024, 0>>, <<2024, 1>>, <<2024, 2>>}

Input(ruleList, txns, balance, ym) ==
    [data |-> [startingBalance |-> balance, transactions |-> txns, rules |-> ruleList],
     year |-> ym[1], month |-> ym[2]]

Inputs ==
    \* one rule of any shape
    {Input(<<r>>, <<>>, 0, ym) : r \in RichRules \cup ReversedRules, ym \in RuleMonths}
    \cup
    \* several rules
    {Input(rl, <<>>, 0, ym) : rl \in RuleLists(CoreRules, MaxRules), ym \in CoreMonths}
    \cup
    {Input(<<>>, <<>>, 0, ym) : ym \in CenturyMonths}
    \cup
    \* stored transactions, with at most one rule
    {Input(rl, tl, b, ym) :
        rl \in {<<>>, <<SalaryRule>>},
        tl \in TxnLists(ManualTxns, MaxTxns),
        b \in {0, 1000}, ym \in SnapshotMonths}

TypedSalaryRule ==
    TypedRule("income", 3000, "monthly", <<>>, <<1>>, D(2023, 1, 1), <<>>, TRUE)

TypedRules ==
    {TypedSalaryRule,
     TypedRule("expense", 20, "weekly", <<1>>, <<>>, D(2024, 1, 1), <<>>, TRUE),
     TypedRule("expense", 50, "monthly", <<>>, <<31>>, D(2023, 1, 1), <<D(2024, 3, 31)>>, TRUE)}

\* Calendar data whose rules have the declared shape.
TypedInputs ==
    {Input(<<r>>, tl, 1000, ym) :
        r \in TypedRules, tl \in TxnLists(ManualTxns, 1), ym \in SnapshotMonths}

\* Rule lists for the navigation runs.
NavInputs ==
    {Input(rl, <<>>, 0, ym) : rl \in RuleLists(CoreRules, MaxRules) \ {<<>>},
                              ym \in NavMonths}

----------------------------------------------------------------------------
(* The state machine *)

\* saveToStorage: the three lists of the state, as localStorage keeps them.
Persisted(st) ==
    [transactions |-> st.transactions,
     startingBalanceByMonth |-> st.startingBalanceByMonth,
     recurringRules |-> st.recurringRules]

\* Nothing else has run yet.
\* No rows, no request, BasiqProvider's initial state without a user.
RemoteIdle ==
    /\ tables = [transactions |-> <<>>, recurring_rules |-> <<>>, app_settings |-> <<>>]
    /\ imports = <<>>
    /\ importCall = [pc |-> "idle"]
    /\ user = FALSE
    /\ accessToken = <<>>
    /\ loading = FALSE
    /\ error = <<>>
    /\ inflight = {}
    /\ effectPending = FALSE
    /\ autoRequests = 0
    /\ failedSinceAction = FALSE

AuxIdle ==
    /\ occurrences = <<>>
    /\ rendered = <<>>
    /\ localStorage = <<>>
    /\ effects = <<>>
    /\ queued = <<>>
    /\ left = <<>>
    /\ dataOf = <<>>
    /\ now = 0
    /\ RemoteIdle

\* The page as useState makes it, shown in the month (y, m0), once the load
\* effect has found nothing in localStorage and the save effect has run.
PageAt(y, m0, west) ==
    /\ state = [currentYear |-> y, currentMonth |-> m0, transactions |-> <<>>,
                startingBalanceByMonth |-> <<>>, recurringRules |-> <<>>]
    /\ dialogOpen = FALSE
    /\ editingTransaction = <<>>
    /\ recurringForm = <<>>
    /\ storage = Persisted(state)
    /\ zoneWest = west
    /\ uuids = 0

Start(inputs) ==
    /\ \E in \in inputs :
        /\ data = in.data
        /\ year = in.year
        /\ month = in.month
    /\ results = <<>>
    /\ phase = "idle"
    /\ snapshots = <<>>
    /\ previous = <<>>
    /\ PageAt(2024, 0, FALSE)
    /\ AuxIdle

Init == Start(Inputs)

\* A caller invokes generateOccurrencesForMonth(data.rules, year, month); a
\* re-render invokes it again with the same arguments.
CallGenerateOccurrences ==
    /\ results' = generateOccurrencesForMonth(data.rules, year, month)
    /\ phase' = IF phase = "idle" THEN "called" ELSE "recalled"
    /\ UNCHANGED <<data, year, month, snapshots, previous>>
    /\ UNCHANGED pageVars
    /\ UNCHANGED auxVars

\* The component computes the snapshots of the displayed month.
CallComputeSnapshots ==
    /\ snapshots = <<>>
    /\ snapshots' = computeSnapshots(data, year, month)
    /\ UNCHANGED <<data, year, month, results, phase, previous>>
    /\ UNCHANGED pageVars
    /\ UNCHANGED auxVars

Next == CallGenerateOccurrences \/ CallComputeSnapshots

Spec == Init /\ [][Next]_vars

\* The same calls on calendar data of the declared shape.
InitTyped == Start(TypedInputs)

SpecTyped == InitTyped /\ [][Next]_vars

\* addMonths(date, delta): the first day of the month delta months away.
addMonths(y, m0, delta) ==
    LET t == DateUTC(y, m0 + delta, 1)
    IN  <<GetUTCFullYear(t), GetUTCMonth(t)>>

\* The previous / next month buttons: setCurrentMonth(m => addMonths(m, delta)).
\* The occurrences of the month that is left are kept in `previous`.
Navigate(delta) ==
    /\ addMonths(year, month, delta) \in NavMonths
    /\ year' = addMonths(year, month, delta)[1]
    /\ month' = addMonths(year, month, delta)[2]
    /\ previous' = results
    /\ results' = <<>>
    /\ phase' = "idle"
    /\ snapshots' = <<>>
    /\ UNCHANGED data
    /\ UNCHANGED pageVars
    /\ UNCHANGED auxVars

InitNav == Start(NavInputs)

NextNav == CallGenerateOccurrences \/ \E delta \in {-1, 1} : Navigate(delta)

SpecNav == InitNav /\ [][NextNav]_vars

----------------------------------------------------------------------------
(* The calendar page, src/unnamed/part_002 (Home) *)

ChColon == 58
ChU == 117

Max(a, b) == IF a >= b THEN a ELSE b

\* new Date(year, month, day): a local midnight, named by the day number of
\* its local calendar date.
LocalDate(y, m0, d) == DateUTC(y, m0, d)

\* new Date("YYYY-MM-DD") is midnight UTC; getFullYear, getMonth and getDate
\* read it in the local zone, where it is still the day before when the zone
\* is west of Greenwich.
LocalDayOf(utcDay, west) ==
    IF IsNaN(utcDay) THEN NaN ELSE IF west THEN utcDay - 1 ELSE utcDay

\* ymd: `${getFullYear()}-${pad(getMonth()+1)}-${pad(getDate())}` of a local
\* date (years of four digits).
ymd(localDay) ==
    LET c == CivilFromDays(localDay)
    IN  Pad(c.y, 4) \o <<ChDash>> \o Pad(c.m, 2) \o <<ChDash>> \o Pad(c.d, 2)

daysInMonth(y, m0) == GetUTCDate(LocalDate(y, m0 + 1, 0))

\* The page's own clampDay: Math.min(Math.max(1, day), dim).
pageClampDay(y, m0, day) == Min(Max(1, day), daysInMonth(y, m0))

\* within(date, start, end): both bounds are optional, and a comparison with
\* an Invalid Date rejects nothing.
within(date, start, end) ==
    LET d == ParseIsoDate(date)
    IN  /\ ~(start /= <<>> /\ JsLt(d, ParseIsoDate(start)))
        /\ ~(Present(end) /\ end[1] /= <<>> /\ JsGt(d, ParseIsoDate(end[1])))

\* `${r.id}:${dstr}`
PageOccurrenceId(ruleId, dstr) == ruleId \o <<ChColon>> \o dstr

PageOccurrence(r, dstr) ==
    [id |-> <<PageOccurrenceId(r.id, dstr)>>,
     type |-> r.type,
     amount |-> r.amount,
     note |-> r.note,
     date |-> dstr,
     source |-> <<"recurring">>,
     _ruleId |-> <<r.id>>]

PushIfWithin(r, dstr) ==
    IF within(dstr, r.start, r.end) THEN <<PageOccurrence(r, dstr)>> ELSE <<>>

\* while (d.getMonth() === month) { ...; d = new Date(y, m, d.getDate() + 7) }
RECURSIVE PageWeeklyLoop(_, _, _)
PageWeeklyLoop(r, d, m0) ==
    IF GetUTCMonth(d) = m0
    THEN PushIfWithin(r, ymd(d)) \o PageWeeklyLoop(r, d + 7, m0)
    ELSE <<>>

\* Mutant of Forward14: the date is brought to the month in steps of 7 days.
RECURSIVE Forward14By7(_, _)
Forward14By7(d, monthStart) ==
    IF JsLt(d, monthStart) THEN Forward14By7(d + 7, monthStart) ELSE d

\* while (d < monthStart) d = new Date(y, m, d.getDate() + 14)
RECURSIVE Forward14(_, _)
Forward14(d, monthStart) ==
    IF JsLt(d, monthStart) THEN Forward14(d + 14, monthStart) ELSE d

\* while (d.getMonth() === month && d.getFullYear() === year) { ... + 14 }
RECURSIVE PageFortnightlyLoop(_, _, _, _)
PageFortnightlyLoop(r, d, y, m0) ==
    IF ~IsNaN(d) /\ GetUTCMonth(d) = m0 /\ GetUTCFullYear(d) = y
    THEN PushIfWithin(r, ymd(d)) \o PageFortnightlyLoop(r, d + 14, y, m0)
    ELSE <<>>

\* One iteration of `for (const r of state.recurringRules)`.
PageRuleOccurrences(r, y, m0, west) ==
    IF r.frequency = "monthly"
    THEN LET dom == IF Present(r.dayOfMonth) /\ r.dayOfMonth[1] /= 0
                    THEN r.dayOfMonth[1] ELSE 1
             day == pageClampDay(y, m0, dom)
         IN  PushIfWithin(r, ymd(LocalDate(y, m0, day)))
    ELSE IF r.frequency = "weekly"
    THEN LET weekday == IF Present(r.weekday) THEN r.weekday[1] ELSE 0
             firstOfMonth == LocalDate(y, m0, 1)
             offset == JsRem(7 + weekday - GetUTCDay(firstOfMonth), 7)
         IN  PageWeeklyLoop(r, LocalDate(y, m0, 1 + offset), m0)
    ELSE IF r.frequency = "fortnightly"
    THEN LET d == LocalDayOf(ParseIsoDate(r.start), west)
             monthStart == LocalDate(y, m0, 1)
         IN  PageFortnightlyLoop(r, Forward14(d, monthStart), y, m0)
    ELSE <<>>

RECURSIVE generateRecurringOccurrences(_, _, _, _)
generateRecurringOccurrences(rules, y, m0, west) ==
    IF rules = <<>> THEN <<>>
    ELSE PageRuleOccurrences(Head(rules), y, m0, west)
         \o generateRecurringOccurrences(Tail(rules), y, m0, west)

\* arr.sort((a, b) => a.type.localeCompare(b.type)): a stable sort on a key
\* of two values, "expense" before "income".
SortByType(s) ==
    LET IsExpense(t) == t.type = "expense"
        IsIncome(t) == t.type /= "expense"
    IN  SelectSeq(s, IsExpense) \o SelectSeq(s, IsIncome)

\* The stored transactions the page shows in the month (y, m0): their date,
\* parsed as UTC and read in the local zone, falls in it.
ShownInMonth(t, y, m0, west) ==
    LET d == LocalDayOf(ParseIsoDate(t.date), west)
    IN  ~IsNaN(d) /\ GetUTCFullYear(d) = y /\ GetUTCMonth(d) = m0

getTransactionsForDate(st, date, west) ==
    LET InMonthOnDate(t) ==
            ShownInMonth(t, st.currentYear, st.currentMonth, west) /\ t.date = date
        OnDate(t) == t.date = date
        monthTxns == SelectSeq(st.transactions, InMonthOnDate)
        rec == generateRecurringOccurrences(st.recurringRules, st.currentYear,
                                            st.currentMonth, west)
    IN  SortByType(monthTxns \o SelectSeq(rec, OnDate))

\* The transactions of a day cell of renderCalendar.
CellTransactions(st, date, west) ==
    LET InMonth(t) == ShownInMonth(t, st.currentYear, st.currentMonth, west)
        OnDate(t) == t.date = date
        all == SelectSeq(st.transactions, InMonth)
               \o generateRecurringOccurrences(st.recurringRules, st.currentYear,
                                               st.currentMonth, west)
    IN  SortByType(SelectSeq(all, OnDate))

\* ymKey: `${year}-${pad(month+1)}`
ymKey(y, m0) == Pad(y, 4) \o <<ChDash>> \o Pad(m0 + 1, 2)

\* The body of `for (let day = 1; day <= totalDays; day++)`: the day's delta
\* goes into the running balance and each amount into the month total of its
\* type.
RECURSIVE RenderLoop(_, _, _, _, _, _)
RenderLoop(all, y, m0, day, totalDays, acc) ==
    IF day <= totalDays
    THEN LET dateStr == ymd(LocalDate(y, m0, day))
             OnDate(t) == t.date = dateStr
             IsIncome(t) == t.type = "income"
             IsExpense(t) == t.type = "expense"
             txns == SortByType(SelectSeq(all, OnDate))
             income == SumDeltaUnsigned(SelectSeq(txns, IsIncome))
             others == SumDeltaUnsigned(txns) - income
             dayDelta == income - others
             runningBalance == acc.runningBalance + dayDelta
         IN  RenderLoop(all, y, m0, day + 1, totalDays,
                 [days |-> Append(acc.days, [date |-> dateStr, dayDelta |-> dayDelta,
                                             runningBalance |-> runningBalance]),
                  runningBalance |-> runningBalance,
                  income |-> acc.income + income,
                  expense |-> acc.expense + SumDeltaUnsigned(SelectSeq(txns, IsExpense))])
    ELSE acc

\* Mutant of renderCalendar: the month totals are taken over the month's
\* transactions, not over the day cells.
renderCalendarTotalsOfAll(st, west) ==
    LET y == st.currentYear
        m0 == st.currentMonth
        key == ymKey(y, m0)
        startingBalance == IF key \in DOMAIN st.startingBalanceByMonth
                           THEN st.startingBalanceByMonth[key] ELSE 0
        InMonth(t) == ShownInMonth(t, y, m0, west)
        IsIncome(t) == t.type = "income"
        IsExpense(t) == t.type = "expense"
        all == SelectSeq(st.transactions, InMonth)
               \o generateRecurringOccurrences(st.recurringRules, y, m0, west)
        loop == RenderLoop(all, y, m0, 1, daysInMonth(y, m0),
                           [days |-> <<>>, runningBalance |-> startingBalance,
                            income |-> 0, expense |-> 0])
        totalIncome == SumDeltaUnsigned(SelectSeq(all, IsIncome))
        totalExpense == SumDeltaUnsigned(SelectSeq(all, IsExpense))
    IN  [days |-> loop.days,
         startingBalance |-> startingBalance,
         monthTotals |-> [income |-> totalIncome, expense |-> totalExpense],
         endBalance |-> startingBalance + totalIncome - totalExpense]

\* renderCalendar, and the endBalance the footer shows.
renderCalendar(st, west) ==
    LET y == st.currentYear
        m0 == st.currentMonth
        key == ymKey(y, m0)
        startingBalance == IF key \in DOMAIN st.startingBalanceByMonth
                           THEN st.startingBalanceByMonth[key] ELSE 0
        InMonth(t) == ShownInMonth(t, y, m0, west)
        all == SelectSeq(st.transactions, InMonth)
               \o generateRecurringOccurrences(st.recurringRules, y, m0, west)
        loop == RenderLoop(all, y, m0, 1, daysInMonth(y, m0),
                           [days |-> <<>>, runningBalance |-> startingBalance,
                            income |-> 0, expense |-> 0])
    IN  [days |-> loop.days,
         startingBalance |-> startingBalance,
         monthTotals |-> [income |-> loop.income, expense |-> loop.expense],
         endBalance |-> startingBalance + loop.income - loop.expense]

----------------------------------------------------------------------------
(* The calendar page as a state machine *)

MaxPageTxns == 1
MaxPageRules == 1
MaxUuids == 2

\* crypto.randomUUID(): a fresh string, here "u1", "u2", ...; it has no ':'.
Uuid(n) == <<ChU, ChZero + n>>

PageMonths == {<<2024, 0>>, <<2024, 1>>}
PageDays == {1}
FormAmounts == {0, 25}

\* What the user may put into the rule form.
RuleForms ==
    {[type |-> "income", amount |-> 3000, note |-> <<>>, frequency |-> "monthly",
      weekday |-> 0, dayOfMonth |-> 1, start |-> D(2024, 1, 1), end |-> <<>>],
     [type |-> "expense", amount |-> 20, note |-> <<>>, frequency |-> "weekly",
      weekday |-> 1, dayOfMonth |-> 0, start |-> D(2024, 1, 1), end |-> <<>>],
     [type |-> "expense", amount |-> 100, note |-> <<>>, frequency |-> "fortnightly",
      weekday |-> 0, dayOfMonth |-> 0, start |-> D(2024, 1, 1), end |-> <<D(2024, 1, 31)>>],
     [type |-> "expense", amount |-> 0, note |-> <<>>, frequency |-> "monthly",
      weekday |-> 0, dayOfMonth |-> 1, start |-> D(2024, 1, 1), end |-> <<>>]}

\* setState followed by the save effect, which depends on [state].
SetState(st) == state' = st /\ storage' = Persisted(st)

openTransactionDialog(t) ==
    /\ editingTransaction' = <<t>>
    /\ dialogOpen' = TRUE

closeTransactionDialog ==
    /\ dialogOpen' = FALSE
    /\ editingTransaction' = <<>>

deleteTransaction(id) ==
    LET Others(t) == t.id /= id
    IN  /\ SetState([state EXCEPT !.transactions = SelectSeq(@, Others)])
        /\ closeTransactionDialog

openRecurringForEdit(ruleId) ==
    LET found == {i \in 1..Len(state.recurringRules) :
                     <<state.recurringRules[i].id>> = ruleId}
    IN  recurringForm' = IF found = {} THEN recurringForm
                         ELSE <<state.recurringRules[CHOOSE i \in found :
                                                        \A j \in found : i <= j]>>

\* The "+" and "-" buttons of a day cell.
ClickAdd(day, type) ==
    /\ ~dialogOpen
    /\ openTransactionDialog(
          [id |-> <<>>, type |-> type, amount |-> 0, note |-> <<>>,
           date |-> ymd(LocalDate(state.currentYear, state.currentMonth, day)),
           source |-> <<>>, _ruleId |-> <<>>])
    /\ UNCHANGED <<state, storage, recurringForm, zoneWest, uuids>>

\* A click on a transaction of a day cell: an occurrence opens its rule, any
\* other transaction opens the dialog.
ClickCellTransaction(day, k) ==
    LET date == ymd(LocalDate(state.currentYear, state.currentMonth, day))
        txns == CellTransactions(state, date, zoneWest)
    IN  /\ ~dialogOpen
        /\ k \in 1..Len(txns)
        /\ IF txns[k].source = <<"recurring">>
           THEN /\ openRecurringForEdit(txns[k]._ruleId)
                /\ UNCHANGED <<dialogOpen, editingTransaction>>
           ELSE /\ openTransactionDialog(txns[k])
                /\ UNCHANGED recurringForm
        /\ UNCHANGED <<state, storage, zoneWest, uuids>>

\* The delete button of a transaction of a day cell, hidden on occurrences.
ClickCellDelete(day, k) ==
    LET date == ymd(LocalDate(state.currentYear, state.currentMonth, day))
        txns == CellTransactions(state, date, zoneWest)
    IN  /\ ~dialogOpen
        /\ k \in 1..Len(txns)
        /\ txns[k].source /= <<"recurring">>
        /\ deleteTransaction(txns[k].id)
        /\ UNCHANGED <<recurringForm, zoneWest, uuids>>

\* The Edit button of an entry of the dialog's list of the day.
ClickDialogEdit(k) ==
    /\ dialogOpen /\ editingTransaction /= <<>>
    /\ LET txns == getTransactionsForDate(state, editingTransaction[1].date, zoneWest)
       IN  /\ k \in 1..Len(txns)
           /\ openTransactionDialog(txns[k])
    /\ UNCHANGED <<state, storage, recurringForm, zoneWest, uuids>>

\* The Delete button of an entry of that list, hidden on occurrences.
ClickDialogDelete(k) ==
    /\ dialogOpen /\ editingTransaction /= <<>>
    /\ LET txns == getTransactionsForDate(state, editingTransaction[1].date, zoneWest)
       IN  /\ k \in 1..Len(txns)
           /\ txns[k].source /= <<"recurring">>
           /\ deleteTransaction(txns[k].id)
    /\ UNCHANGED <<recurringForm, zoneWest, uuids>>

\* The form is submitted with the hidden id of the transaction in the dialog
\* and the type, amount and date the user left or typed.
saveTransaction(type, amount, date) ==
    /\ dialogOpen /\ editingTransaction /= <<>>
    /\ LET editing == editingTransaction[1]
           fresh == ~Present(editing.id)
           id == IF fresh THEN <<Uuid(uuids + 1)>> ELSE editing.id
           transaction == [id |-> id, type |-> type, amount |-> Max(0, amount),
                           note |-> editing.note, date |-> date,
                           source |-> <<>>, _ruleId |-> <<>>]
           found == \E i \in 1..Len(state.transactions) : state.transactions[i].id = id
       IN  /\ fresh => uuids < MaxUuids
           /\ uuids' = IF fresh THEN uuids + 1 ELSE uuids
           /\ IF date = <<>> \/ Max(0, amount) = 0
              THEN UNCHANGED <<state, storage, dialogOpen, editingTransaction>>
              ELSE /\ found \/ Len(state.transactions) < MaxPageTxns
                   /\ SetState([state EXCEPT !.transactions =
                          IF found
                          THEN [i \in 1..Len(@) |->
                                  IF @[i].id = id THEN transaction ELSE @[i]]
                          ELSE Append(@, transaction)])
                   /\ closeTransactionDialog
    /\ UNCHANGED <<recurringForm, zoneWest>>

\* The user submits the form with the type chosen and the amount typed or
\* left as the dialog showed it; the date is left as shown.
SubmitTransactionForm ==
    /\ dialogOpen /\ editingTransaction /= <<>>
    /\ \E type \in {"income", "expense"},
          amount \in FormAmounts \cup {editingTransaction[1].amount} :
          saveTransaction(type, amount, editingTransaction[1].date)

\* The Delete button of the form, shown when the transaction has an id.
ClickFormDelete ==
    /\ dialogOpen /\ editingTransaction /= <<>>
    /\ Present(editingTransaction[1].id)
    /\ deleteTransaction(editingTransaction[1].id)
    /\ UNCHANGED <<recurringForm, zoneWest, uuids>>

ClickCancel ==
    /\ dialogOpen
    /\ closeTransactionDialog
    /\ UNCHANGED <<state, storage, recurringForm, zoneWest, uuids>>

\* The Edit button of a rule on the recurring tab.
ClickRuleEdit(i) ==
    /\ ~dialogOpen
    /\ i \in 1..Len(state.recurringRules)
    /\ openRecurringForEdit(<<state.recurringRules[i].id>>)
    /\ UNCHANGED <<state, storage, dialogOpen, editingTransaction, zoneWest, uuids>>

\* The rule form is submitted with the hidden id of the rule it shows.
saveRecurringRule(form) ==
    /\ ~dialogOpen
    /\ LET fresh == recurringForm = <<>>
           id == IF fresh THEN Uuid(uuids + 1) ELSE recurringForm[1].id
           amount == Max(0, form.amount)
           dayOfMonth == IF form.dayOfMonth = 0 THEN <<>> ELSE <<form.dayOfMonth>>
           rule == [id |-> id, type |-> form.type, amount |-> amount,
                    note |-> form.note, frequency |-> form.frequency,
                    start |-> form.start, end |-> form.end,
                    weekday |-> IF form.frequency = "weekly"
                                THEN <<form.weekday>> ELSE <<>>,
                    dayOfMonth |-> IF form.frequency = "monthly"
                                   THEN (IF Present(dayOfMonth) THEN dayOfMonth ELSE <<1>>)
                                   ELSE <<>>]
           found == \E i \in 1..Len(state.recurringRules) :
                       state.recurringRules[i].id = id
       IN  /\ fresh => uuids < MaxUuids
           /\ uuids' = IF fresh THEN uuids + 1 ELSE uuids
           /\ IF amount = 0 \/ form.start = <<>>
              THEN UNCHANGED <<state, storage, recurringForm>>
              ELSE /\ found \/ Len(state.recurringRules) < MaxPageRules
                   /\ SetState([state EXCEPT !.recurringRules =
                          IF found
                          THEN [i \in 1..Len(@) |-> IF @[i].id = id THEN rule ELSE @[i]]
                          ELSE Append(@, rule)])
                   /\ recurringForm' = <<>>
    /\ UNCHANGED <<dialogOpen, editingTransaction, zoneWest>>

deleteRecurringRule(i) ==
    /\ ~dialogOpen
    /\ i \in 1..Len(state.recurringRules)
    /\ LET Others(r) == r.id /= state.recurringRules[i].id
       IN  SetState([state EXCEPT !.recurringRules = SelectSeq(@, Others)])
    /\ UNCHANGED <<dialogOpen, editingTransaction, recurringForm, zoneWest, uuids>>

navigateMonth(direction) ==
    LET d == LocalDate(state.currentYear, state.currentMonth + direction, 1)
    IN  /\ ~dialogOpen
        /\ <<GetUTCFullYear(d), GetUTCMonth(d)>> \in PageMonths
        /\ SetState([state EXCEPT !.currentYear = GetUTCFullYear(d),
                                  !.currentMonth = GetUTCMonth(d)])
        /\ UNCHANGED <<dialogOpen, editingTransaction, recurringForm, zoneWest, uuids>>

InitPage ==
    /\ data = [startingBalance |-> 0, transactions |-> <<>>, rules |-> <<>>]
    /\ year = 2024 /\ month = 0
    /\ results = <<>> /\ phase = "idle" /\ snapshots = <<>> /\ previous = <<>>
    /\ \E west \in BOOLEAN : PageAt(2024, 0, west)
    /\ AuxIdle

NextPage ==
    \/ \E day \in PageDays, type \in {"income", "expense"} :
          ClickAdd(day, type) /\ UNCHANGED calendarVars
    \/ \E day \in PageDays, k \in 1..(MaxPageTxns + MaxPageRules) :
          ClickCellTransaction(day, k) /\ UNCHANGED calendarVars
    \/ \E day \in PageDays, k \in 1..(MaxPageTxns + MaxPageRules) :
          ClickCellDelete(day, k) /\ UNCHANGED calendarVars
    \/ \E k \in 1..(MaxPageTxns + MaxPageRules) :
          ClickDialogEdit(k) /\ UNCHANGED calendarVars
    \/ \E k \in 1..(MaxPageTxns + MaxPageRules) :
          ClickDialogDelete(k) /\ UNCHANGED calendarVars
    \/ SubmitTransactionForm /\ UNCHANGED calendarVars
    \/ ClickFormDelete /\ UNCHANGED calendarVars
    \/ ClickCancel /\ UNCHANGED calendarVars
    \/ \E i \in 1..MaxPageRules : ClickRuleEdit(i) /\ UNCHANGED calendarVars
    \/ \E form \in RuleForms : saveRecurringRule(form) /\ UNCHANGED calendarVars
    \/ \E i \in 1..MaxPageRules : deleteRecurringRule(i) /\ UNCHANGED calendarVars
    \/ \E direction \in {-1, 1} : navigateMonth(direction) /\ UNCHANGED calendarVars

SpecPage == InitPage /\ [][NextPage]_vars

\* The page's generateRecurringOccurrences called on the rules and the month
\* the library's generateOccurrencesForMonth is called on.
CallGenerateRecurringOccurrences ==
    /\ occurrences = <<>>
    /\ occurrences' = <<generateRecurringOccurrences(data.rules, year, month, zoneWest)>>
    /\ UNCHANGED <<expanderVars, pageVars, rendered, componentVars, remoteVars>>

BothInputs ==
    {Input(<<r>>, <<>>, 0, ym) : r \in RichRules \cup ReversedRules, ym \in RuleMonths}

InitBoth ==
    /\ \E in \in BothInputs :
        /\ data = in.data
        /\ year = in.year
        /\ month = in.month
    /\ results = <<>> /\ phase = "idle" /\ snapshots = <<>> /\ previous = <<>>
    /\ \E west \in BOOLEAN : PageAt(2024, 0, west)
    /\ AuxIdle

NextBoth ==
    \/ phase = "idle" /\ CallGenerateOccurrences
    \/ CallGenerateRecurringOccurrences

SpecBoth == InitBoth /\ [][NextBoth]_vars

\* Stored page data for the render runs.
PageTxn(type, amount, date) ==
    [id |-> <<Uuid(1)>>, type |-> type, amount |-> amount, note |-> <<>>,
     date |-> date, source |-> <<>>, _ruleId |-> <<>>]

PageRule(type, amount, frequency, weekday, dayOfMonth, start, end) ==
    [id |-> Uuid(9), type |-> type, amount |-> amount, note |-> <<>>,
     frequency |-> frequency, weekday |-> weekday, dayOfMonth |-> dayOfMonth,
     start |-> start, end |-> end]

RenderTxns ==
    {PageTxn("expense", 200, D(2024, 1, 15)),
     PageTxn("income", 70, D(2024, 1, 15)),
     PageTxn("income", 5, D(2024, 1, 1)),
     PageTxn("expense", 2000, D(2024, 2, 1)),
     PageTxn("expense", 9, D(2023, 12, 31))}

RenderRuleLists ==
    {<<>>,
     <<PageRule("income", 3000, "monthly", <<>>, <<1>>, D(2023, 1, 1), <<>>)>>,
     <<PageRule("expense", 20, "weekly", <<1>>, <<>>, D(2024, 1, 8), <<>>)>>,
     <<PageRule("expense", 100, "fortnightly", <<>>, <<>>, D(2024, 1, 1), <<>>)>>}

RenderMonths == {<<2024, 0>>, <<2024, 1>>}

\* The i-th stored transaction carries the i-th uuid.
PageTxnLists(S, n) ==
    UNION {{[i \in 1..k |-> [f[i] EXCEPT !.id = <<Uuid(i)>>]] : f \in [1..k -> S]} : k \in 0..n}

InitRender ==
    /\ data = [startingBalance |-> 0, transactions |-> <<>>, rules |-> <<>>]
    /\ year = 2024 /\ month = 0
    /\ results = <<>> /\ phase = "idle" /\ snapshots = <<>> /\ previous = <<>>
    /\ \E ym \in RenderMonths, tl \in PageTxnLists(RenderTxns, MaxTxns),
          rl \in RenderRuleLists, b \in {0, 1000} :
          state = [currentYear |-> ym[1], currentMonth |-> ym[2],
                   transactions |-> tl,
                   startingBalanceByMonth |->
                       IF b = 0 THEN <<>> ELSE (ymKey(ym[1], ym[2]) :> b),
                   recurringRules |-> rl]
    /\ dialogOpen = FALSE
    /\ editingTransaction = <<>>
    /\ recurringForm = <<>>
    /\ storage = Persisted(state)
    /\ zoneWest \in BOOLEAN
    /\ uuids = MaxUuids
    /\ AuxIdle

\* A render of the page: renderCalendar and the footer's endBalance.
CallRenderCalendar ==
    /\ rendered = <<>>
    /\ rendered' = <<renderCalendar(state, zoneWest)>>
    /\ UNCHANGED <<expanderVars, pageVars, occurrences, componentVars, remoteVars>>

NextRender == CallRenderCalendar

SpecRender == InitRender /\ [][NextRender]_vars

----------------------------------------------------------------------------
(* Calendar facts the claims are stated with, independent of the Date model *)

LeapYear(y) == (y % 4 = 0 /\ y % 100 /= 0) \/ y % 400 = 0

DaysInMonthSpec(y, m0) ==
    IF m0 = 1 THEN (IF LeapYear(y) THEN 29 ELSE 28)
    ELSE IF m0 \in {3, 5, 8, 10} THEN 30
    ELSE 31

\* The ISO string of day `day` of the month (y, m0), written out directly.
DateString(y, m0, day) ==
    Pad(y, 4) \o <<ChDash>> \o Pad(m0 + 1, 2) \o <<ChDash>> \o Pad(day, 2)

\* The dates of the target month.
MonthDates == {DateString(year, month, k) : k \in 1..DaysInMonthSpec(year, month)}

\* ISO dates order as their strings do.
OnOrAfter(d, e) == ~StrLess(d, e)
OnOrBefore(d, e) == ~StrLess(e, d)

WithinRuleRange(rule, d) ==
    OnOrAfter(d, rule.start) /\ (HasEnd(rule) => OnOrBefore(d, rule.end[1]))

\* Days from date e to date d.
DaysBetween(e, d) == ParseIsoDate(d) - ParseIsoDate(e)

\* Day of the week of d (0 = Sunday), counted from Monday 2024-01-01.
WeekdayOf(d) == (DaysBetween(D(2024, 1, 1), d) + 1) % 7

Called == phase /= "idle"

RuleIndexes == 1..Len(data.rules)

\* Positions in results of the occurrences of the i-th rule (ids are distinct).
PositionsOf(i) == {k \in 1..Len(results) : results[k].ruleId = <<data.rules[i].id>>}
DatesOf(i) == {results[k].date : k \in PositionsOf(i)}

\* The rule yields exactly the dates of S, each once.
YieldsExactly(i, S) == DatesOf(i) = S /\ Cardinality(PositionsOf(i)) = Cardinality(S)

WellFormed(rule) ==
    /\ Present(rule.dayOfMonth) => rule.dayOfMonth[1] \in 1..31
    /\ Present(rule.weekday) => rule.weekday[1] \in 0..6

----------------------------------------------------------------------------
(* Claims *)

\* C1: for well-formed rules (dayOfMonth in 1..31, weekday in 0..6) every
\* transaction returned by generateOccurrencesForMonth is dated between the
\* first and the last day of the target month, inclusive.
C1_InTargetMonth ==
    (Called /\ \A i \in RuleIndexes : WellFormed(data.rules[i]))
        => LET dates == MonthDates
           IN  \A k \in 1..Len(results) : results[k].date \in dates

\* A clamped monthly rule and a weekly rule both produced dates.
C1_Witness ==
    /\ Called
    /\ \A i \in RuleIndexes : WellFormed(data.rules[i])
    /\ Len(results) >= 4
    /\ \E i \in RuleIndexes :
        /\ data.rules[i].dayOfMonth = <<31>>
        /\ month = 1
        /\ PositionsOf(i) /= {}

\* C2: an active monthly rule with dayOfMonth in 1..31 yields exactly one
\* occurrence, dated min(dayOfMonth, last day of the month), when that date is
\* within [start, end], and none otherwise; dayOfMonth 31 over February gives
\* the last day of February.
C2_Target(rule) ==
    DateString(year, month, Min(rule.dayOfMonth[1], DaysInMonthSpec(year, month)))

C2_MonthlyExactlyOne ==
    Called =>
        \A i \in RuleIndexes :
            LET rule == data.rules[i]
            IN  (/\ rule.active
                 /\ rule.frequency = "monthly"
                 /\ Present(rule.dayOfMonth)
                 /\ rule.dayOfMonth[1] \in 1..31)
                => YieldsExactly(i, IF WithinRuleRange(rule, C2_Target(rule))
                                    THEN {C2_Target(rule)} ELSE {})

\* dayOfMonth 31 over February 2024 produced 2024-02-29.
C2_Witness ==
    /\ Called
    /\ year = 2024 /\ month = 1
    /\ \E i \in RuleIndexes :
        /\ data.rules[i].active
        /\ data.rules[i].frequency = "monthly"
        /\ data.rules[i].dayOfMonth = <<31>>
        /\ DatesOf(i) = {D(2024, 2, 29)}

\* C3: an active weekly rule with weekday in 0..6 yields exactly the dates of
\* the target month that fall on rule.weekday, lie within [start, end] and are
\* a non-negative multiple of 7 days after the start, each once.
C3_Expected(rule) ==
    {d \in MonthDates :
        /\ WeekdayOf(d) = rule.weekday[1]
        /\ WithinRuleRange(rule, d)
        /\ DaysBetween(rule.start, d) >= 0
        /\ DaysBetween(rule.start, d) % 7 = 0}

C3_WeeklyExact ==
    Called =>
        \A i \in RuleIndexes :
            LET rule == data.rules[i]
            IN  (/\ rule.active
                 /\ rule.frequency = "weekly"
                 /\ Present(rule.weekday)
                 /\ rule.weekday[1] \in 0..6)
                => YieldsExactly(i, C3_Expected(rule))

\* A weekly Wednesday rule that starts on 2024-01-10 produced the 10th, 17th,
\* 24th and 31st of January 2024 and not the 3rd.
C3_Witness ==
    /\ Called
    /\ year = 2024 /\ month = 0
    /\ \E i \in RuleIndexes :
        /\ data.rules[i].frequency = "weekly"
        /\ data.rules[i].weekday = <<3>>
        /\ data.rules[i].start = D(2024, 1, 10)
        /\ DatesOf(i) = {D(2024, 1, 10), D(2024, 1, 17), D(2024, 1, 24), D(2024, 1, 31)}

\* C4: an active fortnightly rule yields exactly the dates start + 14*k
\* (k >= 0) that fall inside the target month and on/before the end date,
\* whatever its weekday field is, also when the field is absent.
C4_Expected(rule) ==
    {d \in MonthDates :
        /\ WithinRuleRange(rule, d)
        /\ DaysBetween(rule.start, d) >= 0
        /\ DaysBetween(rule.start, d) % 14 = 0}

C4_FortnightlyFromStart ==
    Called =>
        \A i \in RuleIndexes :
            LET rule == data.rules[i]
            IN  (rule.active /\ rule.frequency = "fortnightly")
                => YieldsExactly(i, C4_Expected(rule))

\* C5: every occurrence of a rule is dated on/after the rule's start date
\* and, when the rule has an end date, on/before it.
C5_WithinStartEnd ==
    Called =>
        \A i \in RuleIndexes : \A d \in DatesOf(i) : WithinRuleRange(data.rules[i], d)

\* A weekly Monday rule from 2024-01-01 ending 2024-01-15 produced the 1st,
\* 8th and 15th of January 2024 and nothing on the 22nd or 29th.
C5_Witness ==
    /\ Called
    /\ year = 2024 /\ month = 0
    /\ \E i \in RuleIndexes :
        /\ data.rules[i].frequency = "weekly"
        /\ data.rules[i].weekday = <<1>>
        /\ data.rules[i].end = <<D(2024, 1, 15)>>
        /\ DatesOf(i) = {D(2024, 1, 1), D(2024, 1, 8), D(2024, 1, 15)}

\* C6: a rule with active = false contributes no occurrence.
C6_InactiveSilent ==
    Called =>
        \A i \in RuleIndexes : ~data.rules[i].active => PositionsOf(i) = {}

\* An inactive rule whose range covers the month sat in a list whose other
\* rule produced occurrences.
C6_Witness ==
    /\ Called
    /\ results /= <<>>
    /\ \E i \in RuleIndexes :
        /\ ~data.rules[i].active
        /\ WithinRuleRange(data.rules[i], DateString(year, month, 1))

\* C7: two generated occurrences, of the same call or of calls for different
\* months, have the same id exactly when they have the same rule id and the
\* same date.
C7_Occurrences ==
    {results[k] : k \in 1..Len(results)} \cup {previous[k] : k \in 1..Len(previous)}

C7_IdInjective ==
    \A a, b \in C7_Occurrences :
        (a.id = b.id) <=> (a.ruleId = b.ruleId /\ a.date = b.date)

\* Occurrences of two rules, one id a prefix of the other, for two months.
C7_Witness ==
    /\ results /= <<>>
    /\ previous /= <<>>
    /\ \E a, b \in C7_Occurrences : a.ruleId /= b.ruleId /\ a.date /= b.date
    /\ \E a, b \in C7_Occurrences : a.ruleId = b.ruleId /\ a.date /= b.date
    /\ \E a, b \in C7_Occurrences :
        a.ruleId /= b.ruleId /\ SubSeq(a.date, 9, 10) = SubSeq(b.date, 9, 10)

C9_RuleIndex(t) == CHOOSE i \in RuleIndexes : <<data.rules[i].id>> = t.ruleId

C9_Ordered ==
    Called =>
        \A j, k \in 1..Len(results) :
            j < k =>
                /\ OnOrBefore(results[j].date, results[k].date)
                /\ results[j].date = results[k].date
                    => C9_RuleIndex(results[j]) <= C9_RuleIndex(results[k])

\* Two rules met on one date, and the second rule also has a date that is
\* earlier than a date of the first, so the sort had to move it.
C9_Witness ==
    /\ Called
    /\ \E j, k \in 1..Len(results) :
        /\ j < k
        /\ results[j].date = results[k].date
        /\ results[j].ruleId /= results[k].ruleId
    /\ \E j, k \in 1..Len(results) :
        /\ j < k
        /\ C9_RuleIndex(results[j]) > C9_RuleIndex(results[k])

\* C10: computeSnapshots returns one snapshot per day of the month (28, 29,
\* 30 or 31, February having 29 exactly in leap years), the i-th dated day i.
C10_OnePerDay ==
    snapshots /= <<>> =>
        /\ Len(snapshots) = DaysInMonthSpec(year, month)
        /\ \A i \in 1..Len(snapshots) : snapshots[i].date = DateString(year, month, i)

\* The snapshots of a leap February, computed with rules and transactions.
C10_Witness ==
    /\ year = 2024 /\ month = 1
    /\ Len(snapshots) = 29
    /\ data.rules /= <<>>
    /\ data.transactions /= <<>>

----------------------------------------------------------------------------
(* Claims on computeSnapshots *)

\* The sum of the daily deltas of the first i snapshots.
RECURSIVE DeltaThrough(_)
DeltaThrough(i) == IF i = 0 THEN 0 ELSE DeltaThrough(i - 1) + snapshots[i].dailyDelta

\* C11: for every index i of the result of computeSnapshots, the running
\* balance of snapshot i is the starting balance plus the sum of the daily
\* deltas of snapshots 0..i, kept as computed also when it is negative.
C11_RunningBalance ==
    \A i \in 1..Len(snapshots) :
        snapshots[i].runningBalance = data.startingBalance + DeltaThrough(i)

\* A month whose balance goes below zero after a day that moved it.
C11_Witness ==
    \E i \in 1..Len(snapshots) :
        /\ snapshots[i].dailyDelta /= 0
        /\ snapshots[i].runningBalance < 0
        /\ data.startingBalance > 0

Signed(t) == IF t.type = "income" THEN t.amount ELSE 0 - t.amount

\* The signed sum of the first n entries of seq that are dated dateStr.
RECURSIVE SignedOn(_, _, _)
SignedOn(seq, dateStr, n) ==
    IF n = 0 THEN 0
    ELSE SignedOn(seq, dateStr, n - 1)
         + (IF seq[n].date = dateStr THEN Signed(seq[n]) ELSE 0)

\* C12: for every day d of the target month, the daily delta of d is the sum
\* of the income amounts dated d minus the sum of the expense amounts dated d,
\* over the stored transactions together with the occurrences generated from
\* the rules, each counted exactly once.
C12_DailyDelta ==
    snapshots /= <<>> =>
        LET occ == generateOccurrencesForMonth(data.rules, year, month)
        IN  \A i \in 1..Len(snapshots) :
                LET dateStr == DateString(year, month, i)
                IN  snapshots[i].dailyDelta =
                        SignedOn(data.transactions, dateStr, Len(data.transactions))
                        + SignedOn(occ, dateStr, Len(occ))

\* A month with a generated income on one day and two stored transactions,
\* an expense and an income, on another.
C12_Witness ==
    /\ Len(snapshots) = 31
    /\ snapshots[1].dailyDelta = 3000
    /\ snapshots[5].dailyDelta = 70 - 200
    /\ Len(data.transactions) = 2

\* The YYYY-MM prefix of the dates of the target month.
MonthPrefix == Pad(year, 4) \o <<ChDash>> \o Pad(month + 1, 2)
OutsideMonth(t) == SubSeq(t.date, 1, 7) /= MonthPrefix

\* C14: a stored transaction dated outside the target month contributes to no
\* day's delta or running balance, and computeSnapshots returns normally:
\* the snapshots are those computed with the transaction removed.
C14_OutsideIgnored ==
    (snapshots /= <<>> /\ \E k \in 1..Len(data.transactions) :
                              OutsideMonth(data.transactions[k])) =>
        LET Inside(t) == ~OutsideMonth(t)
            kept == [data EXCEPT !.transactions = SelectSeq(@, Inside)]
        IN  /\ Len(snapshots) = DaysInMonthSpec(year, month)
            /\ snapshots = computeSnapshots(kept, year, month)

\* March 2024 computed from a transaction of March 2023 and one of March 2024.
C14_Witness ==
    /\ snapshots /= <<>>
    /\ year = 2024 /\ month = 2
    /\ \E j, k \in 1..Len(data.transactions) :
        /\ data.transactions[j].date = DateString(2023, 2, 5)
        /\ data.transactions[k].date = DateString(2024, 2, 5)

\* C15: with no rules and no transactions, computeSnapshots returns one
\* snapshot per day of the month, each with a daily delta of 0 and a running
\* balance equal to the starting balance.
C15_EmptyMonth ==
    (snapshots /= <<>> /\ data.rules = <<>> /\ data.transactions = <<>>) =>
        /\ Len(snapshots) = DaysInMonthSpec(year, month)
        /\ \A i \in 1..Len(snapshots) :
            /\ snapshots[i].dailyDelta = 0
            /\ snapshots[i].runningBalance = data.startingBalance

\* An empty month computed from a starting balance that is not zero.
C15_Witness ==
    /\ snapshots /= <<>>
    /\ data.rules = <<>> /\ data.transactions = <<>>
    /\ data.startingBalance = 1000

\* The calendar data of the end-to-end scenario: a starting balance of 1000,
\* one manual expense of 200 dated 2024-03-05 and one active monthly income
\* rule of 3000 on day 1 that starts on 2023-01-01, displayed for March 2024.
C13_Scenario ==
    /\ data.startingBalance = 1000
    /\ data.transactions = <<[Manual("expense", 200, D(2024, 3, 5)) EXCEPT !.id = TxnIdAt(1)]>>
    /\ data.rules = <<TypedSalaryRule>>
    /\ year = 2024 /\ month = 2

\* C13: in the end-to-end scenario, with the rule shaped as CalendarData
\* declares it, computeSnapshots for March 2024 yields a daily delta of 3000
\* and a running balance of 4000 on day 1, a daily delta of -200 and a running
\* balance of 3800 on day 5, and on every other day a daily delta of 0 with
\* the running balance of the day before.
C13_EndToEnd ==
    (C13_Scenario /\ snapshots /= <<>>) =>
        /\ Len(snapshots) = 31
        /\ snapshots[1].dailyDelta = 3000 /\ snapshots[1].runningBalance = 4000
        /\ snapshots[5].dailyDelta = 0 - 200 /\ snapshots[5].runningBalance = 3800
        /\ \A i \in (2..31) \ {5} :
            /\ snapshots[i].dailyDelta = 0
            /\ snapshots[i].runningBalance = snapshots[i - 1].runningBalance

----------------------------------------------------------------------------
(* Claims on malformed rules and particular rules *)

\* The rule lacks the field its frequency requires.
Malformed(rule) ==
    \/ rule.frequency = "monthly" /\ ~Present(rule.dayOfMonth)
    \/ rule.frequency \in {"weekly", "fortnightly"} /\ ~Present(rule.weekday)

\* The results without the occurrences of the i-th rule, and the result of
\* the call on the rule list without its i-th rule.
ResultsOfOthers(i) ==
    LET Other(t) == t.ruleId /= <<data.rules[i].id>>
    IN  SelectSeq(results, Other)

WithoutRule(i) ==
    SubSeq(data.rules, 1, i - 1) \o SubSeq(data.rules, i + 1, Len(data.rules))

OthersUnaffected(i) ==
    ResultsOfOthers(i) = generateOccurrencesForMonth(WithoutRule(i), year, month)

C16_Defaulted(rule) ==
    IF rule.frequency = "monthly"
    THEN {d \in {DateString(year, month, 1)} : WithinRuleRange(rule, d)}
    ELSE {d \in MonthDates :
            /\ WeekdayOf(d) = 1
            /\ WithinRuleRange(rule, d)
            /\ DaysBetween(rule.start, d) >= 0
            /\ DaysBetween(rule.start, d) % (IF rule.frequency = "weekly" THEN 7 ELSE 14) = 0}

C17_ReversedRange ==
    Called =>
        \A i \in RuleIndexes :
            LET rule == data.rules[i]
            IN  (HasEnd(rule) /\ StrLess(rule.end[1], rule.start)) => PositionsOf(i) = {}

\* The call returned nothing for an active rule that runs from 2024-01-10 to
\* 2024-01-05, expanded over January 2024, the month of both dates.
C17_Witness ==
    /\ Called
    /\ year = 2024 /\ month = 0
    /\ \E i \in RuleIndexes :
        /\ data.rules[i].active
        /\ data.rules[i].start = D(2024, 1, 10)
        /\ data.rules[i].end = <<D(2024, 1, 5)>>
        /\ PositionsOf(i) = {}

\* The active weekly Monday rules that start on Wednesday 2024-01-10.
C18_Rule(rule) ==
    /\ rule.active
    /\ rule.frequency = "weekly"
    /\ rule.weekday = <<1>>
    /\ rule.start = D(2024, 1, 10)

C19_Rule(rule) ==
    /\ rule.active
    /\ rule.frequency = "fortnightly"
    /\ rule.weekday \in {<<>>, <<1>>}
    /\ rule.start = D(2024, 1, 1)
    /\ ~HasEnd(rule)

\* C19: a fortnightly rule with start 2024-01-01 and no end (weekday absent
\* or Monday), expanded over February 2024, produces occurrences on 2024-02-12
\* and 2024-02-26 and no others: 14 days apart and both on a Monday.
C19_FortnightlyFebruary ==
    (Called /\ year = 2024 /\ month = 1) =>
        \A i \in RuleIndexes :
            C19_Rule(data.rules[i]) =>
                /\ YieldsExactly(i, {DateString(2024, 1, 12), DateString(2024, 1, 26)})
                /\ \A d \in DatesOf(i) : WeekdayOf(d) = 1
                /\ \A j, k \in PositionsOf(i) :
                    j < k => DaysBetween(results[j].date, results[k].date) = 14

\* The rule without a weekday produced two occurrences over February 2024.
C19_Witness ==
    /\ Called
    /\ year = 2024 /\ month = 1
    /\ \E i \in RuleIndexes :
        /\ C19_Rule(data.rules[i])
        /\ data.rules[i].weekday = <<>>
        /\ Cardinality(PositionsOf(i)) = 2

----------------------------------------------------------------------------
(* Claims on the calendar page *)

\* The id has the form of a generated occurrence's id: a rule id, ':' and an
\* ISO date.
IsOccurrenceId(id) ==
    /\ Len(id) > 11
    /\ id[Len(id) - 10] = ChColon
    /\ IsIsoDate(SubSeq(id, Len(id) - 9, Len(id)))

\* C20: recurring occurrences are derived and never stored: after any
\* sequence of user operations on the calendar page, the persisted transaction
\* list has no entry with source 'recurring' and no entry that carries the
\* identifier of a generated occurrence.
C20_OccurrencesNeverStored ==
    \A k \in 1..Len(storage.transactions) :
        LET t == storage.transactions[k]
        IN  /\ t.source /= <<"recurring">>
            /\ ~(Present(t.id) /\ IsOccurrenceId(t.id[1]))

----------------------------------------------------------------------------
(* Further claims on generateOccurrencesForMonth *)

\* C22: every transaction returned by generateOccurrencesForMonth has source
\* 'recurring', a ruleId that is the id of a rule of the input list which is
\* active and whose [start, end] range contains the occurrence's date, and
\* the type and the amount of that rule.
C22_Provenance ==
    Called =>
        \A k \in 1..Len(results) :
            /\ results[k].source = "recurring"
            /\ \E i \in RuleIndexes :
                LET rule == data.rules[i]
                IN  /\ results[k].ruleId = <<rule.id>>
                    /\ rule.active
                    /\ WithinRuleRange(rule, results[k].date)
                    /\ results[k].type = rule.type
                    /\ results[k].amount = rule.amount

\* The result holds an income of one rule and an expense of another.
C22_Witness ==
    /\ Called
    /\ Len(data.rules) = 2
    /\ \E j, k \in 1..Len(results) :
        /\ results[j].type = "income" /\ results[k].type = "expense"
        /\ results[j].amount /= results[k].amount
        /\ results[j].ruleId /= results[k].ruleId

\* The weekday the weekly branch walks: the field, or Monday when absent.
C24_Weekday(rule) == IF Present(rule.weekday) THEN rule.weekday[1] ELSE 1

C25_OutOfRangeDayInMonth ==
    Called =>
        \A i \in RuleIndexes :
            LET rule == data.rules[i]
            IN  (/\ rule.frequency = "monthly"
                 /\ Present(rule.dayOfMonth)
                 /\ rule.dayOfMonth[1] \notin 1..31)
                => DatesOf(i) \subseteq MonthDates

\* Rules on which the two expansions are meant to agree: active, and monthly
\* with dayOfMonth in 1..31, or weekly / fortnightly with a start date that
\* falls on rule.weekday.
C23_Aligned(rule) ==
    /\ rule.active
    /\ \/ /\ rule.frequency = "monthly"
          /\ Present(rule.dayOfMonth)
          /\ rule.dayOfMonth[1] \in 1..31
       \/ /\ rule.frequency \in {"weekly", "fortnightly"}
          /\ Present(rule.weekday)
          /\ rule.weekday[1] = WeekdayOf(rule.start)

\* The dates the page-level expansion gave for the i-th rule.
C23_PageDatesOf(i) ==
    {occurrences[1][k].date :
        k \in {n \in 1..Len(occurrences[1]) :
                  occurrences[1][n]._ruleId = <<data.rules[i].id>>}}

\* C23: for every month and every aligned rule, generateOccurrencesForMonth
\* and the page-level generateRecurringOccurrences produce the same set of
\* occurrence dates, the dates being read as calendar dates without a zone.
C23_ExpansionsAgree ==
    (Called /\ occurrences /= <<>> /\ ~zoneWest) =>
        \A i \in RuleIndexes :
            C23_Aligned(data.rules[i]) => DatesOf(i) = C23_PageDatesOf(i)

\* Both expansions gave 2024-02-12 and 2024-02-26 for a fortnightly Monday
\* rule that started on Monday 2024-01-01.
C23_Witness ==
    /\ Called /\ occurrences /= <<>> /\ ~zoneWest
    /\ year = 2024 /\ month = 1
    /\ C23_Aligned(data.rules[1])
    /\ data.rules[1].frequency = "fortnightly"
    /\ C23_PageDatesOf(1) = {D(2024, 2, 12), D(2024, 2, 26)}
    /\ DatesOf(1) = C23_PageDatesOf(1)

----------------------------------------------------------------------------
(* Claims on the page's month balance *)

\* C28: on the calendar page, for any stored transactions and rules, the
\* month-end balance of the footer (starting balance + month income total -
\* month expense total) equals the running balance of the last day of the
\* displayed month.
C28_FooterIsLastDay ==
    rendered /= <<>> =>
        LET r == rendered[1]
        IN  /\ r.endBalance = r.startingBalance + r.monthTotals.income - r.monthTotals.expense
            /\ r.endBalance = r.days[Len(r.days)].runningBalance

\* A month rendered west of Greenwich with a starting balance, incomes and
\* expenses, stored and recurring, and a stored transaction dated the first
\* of the next month.
C28_Witness ==
    /\ rendered /= <<>>
    /\ zoneWest
    /\ rendered[1].startingBalance = 1000
    /\ rendered[1].monthTotals.income > 0
    /\ rendered[1].monthTotals.expense > 0
    /\ state.recurringRules /= <<>>
    /\ state.currentMonth = 0
    /\ \E k \in 1..Len(state.transactions) : state.transactions[k].date = D(2024, 2, 1)

----------------------------------------------------------------------------
(* CashflowCalendar and its month storage, src/app/lib/storage.ts *)

MaxAdds == 1

\* JSON has no NaN: JSON.stringify writes null for it.
JsonNull == -9999998

JsonNumber(n) == IF IsNaN(n) THEN JsonNull ELSE n

\* JSON.stringify(data), as the text window.localStorage keeps: a text that
\* parses, and the value it parses to.
JSONstringify(d) ==
    [parses |-> TRUE,
     value |-> [startingBalance |-> JsonNumber(d.startingBalance),
                transactions |-> [i \in 1..Len(d.transactions) |->
                                    [d.transactions[i] EXCEPT !.amount = JsonNumber(@)]],
                rules |-> d.rules]]

\* A stored text that JSON.parse rejects.
NotJson == [parses |-> FALSE]

monthKeyString(y, m0) == Pad(y, 4) \o <<ChDash>> \o Pad(m0 + 1, 2)

\* "cashflow:month:" followed by the month key.
storageKeyForMonth(y, m0) ==
    <<99, 97, 115, 104, 102, 108, 111, 119, ChColon, 109, 111, 110, 116, 104, ChColon>>
    \o monthKeyString(y, m0)

EmptyData == [startingBalance |-> 0, transactions |-> <<>>, rules |-> <<>>]

loadMonth(store, y, m0) ==
    LET k == storageKeyForMonth(y, m0)
    IN  IF k \notin DOMAIN store THEN EmptyData
        ELSE IF ~store[k].parses THEN EmptyData
        ELSE IF store[k].value.startingBalance = JsonNull THEN EmptyData
        ELSE store[k].value

saveMonth(store, y, m0, d) ==
    LET k == storageKeyForMonth(y, m0)
    IN  [x \in DOMAIN store \cup {k} |-> IF x = k THEN JSONstringify(d) ELSE store[x]]

\* The months the component is taken through, and the month of today.
ComponentMonths == {<<2023, 11>>, <<2024, 0>>, <<2024, 1>>}
Today == [year |-> 2024, month |-> 0, date |-> 31]

\* What localStorage may hold for a month when the component mounts.
StoredData ==
    JSONstringify([startingBalance |-> 100, transactions |-> <<>>, rules |-> <<SalaryRule>>])

StoredTexts ==
    {StoredData,
     JSONstringify([startingBalance |-> NaN, transactions |-> <<>>, rules |-> <<SalaryRule>>]),
     NotJson}

\* Mutant of MonthEffects: the save effect is declared before the load effect.
MonthEffectsSaveFirst == <<"save", "load">>

\* The effects whose dependencies include monthKey, in declaration order.
MonthEffects == <<"load", "save">>

Settled == effects = <<>> /\ queued = <<>>

ExpanderIdle ==
    /\ results = <<>> /\ phase = "idle" /\ snapshots = <<>> /\ previous = <<>>

\* The first render: useState's initial values; every effect is to run.
InitComponent ==
    /\ data = EmptyData
    /\ year = Today.year /\ month = Today.month
    /\ ExpanderIdle
    /\ PageAt(2024, 0, FALSE)
    /\ occurrences = <<>> /\ rendered = <<>>
    /\ \E here \in SUBSET {StoredData}, next \in SUBSET StoredTexts :
         /\ Cardinality(next) <= 1
         /\ localStorage =
              [k \in {storageKeyForMonth(2024, 0) : x \in here}
                      \cup {storageKeyForMonth(2024, 1) : x \in next} |->
                  IF k = storageKeyForMonth(2024, 0)
                  THEN StoredData ELSE CHOOSE x \in next : TRUE]
    /\ effects = MonthEffects
    /\ queued = <<>>
    /\ left = <<>>
    /\ dataOf = <<>>
    /\ now = 0
    /\ RemoteIdle

ComponentFrame ==
    UNCHANGED <<results, phase, snapshots, previous, pageVars, occurrences, rendered, remoteVars>>

\* useEffect(() => { setData(loadMonth(monthKey)); }, [monthKey])
RunLoadEffect ==
    /\ effects /= <<>> /\ Head(effects) = "load"
    /\ queued' = <<loadMonth(localStorage, year, month)>>
    /\ effects' = Tail(effects)
    /\ UNCHANGED <<data, year, month, localStorage, left, dataOf, now>>
    /\ ComponentFrame

\* useEffect(() => { saveMonth(monthKey, data); }, [monthKey, data])
RunSaveEffect ==
    /\ effects /= <<>> /\ Head(effects) = "save"
    /\ localStorage' = saveMonth(localStorage, year, month, data)
    /\ effects' = Tail(effects)
    /\ UNCHANGED <<data, year, month, queued, left, dataOf, now>>
    /\ ComponentFrame

\* The render that follows the load effect's setData: data changed, monthKey
\* did not, so only the save effect is to run.
RenderLoaded ==
    /\ effects = <<>> /\ queued /= <<>>
    /\ data' = queued[1]
    /\ queued' = <<>>
    /\ dataOf' = <<monthKeyString(year, month)>>
    /\ effects' = <<"save">>
    /\ UNCHANGED <<year, month, localStorage, left, now>>
    /\ ComponentFrame

\* An edit handler's setData(prev => d) and the render that follows it.
\* The record of how the month was left no longer describes it.
SetData(d) ==
    /\ Settled
    /\ data' = d
    /\ effects' = <<"save">>
    /\ left' = [k \in DOMAIN left \ {monthKeyString(year, month)} |-> left[k]]
    /\ UNCHANGED <<year, month, localStorage, queued, dataOf>>
    /\ ComponentFrame

\* handleStartingBalanceChange: parseFloat of the field, 0 when not finite.
handleStartingBalanceChange(val) ==
    /\ SetData([data EXCEPT !.startingBalance = IF IsNaN(val) THEN 0 ELSE val])
    /\ UNCHANGED now

\* The transaction built by the quick add buttons and by the cells' + and -.
NewTransaction(type, dateStr) ==
    [id |-> TxnIdAt(now), date |-> dateStr, type |-> type, amount |-> 0,
     note |-> <<>>, source |-> "manual", ruleId |-> <<>>]

\* addTransaction: dated today's day of month, clamped to the month shown.
addTransaction(type) ==
    /\ now < MaxAdds
    /\ now' = now + 1
    /\ LET todayStr == isoDate(year, month, Min(Today.date, getDaysInMonth(year, month)))
           t == [NewTransaction(type, todayStr) EXCEPT !.id = TxnIdAt(now')]
       IN  SetData([data EXCEPT !.transactions = Append(@, t)])

\* updateTransaction(id, patch) for the amount field and the type select.
updateTransaction(id, amount, type) ==
    /\ \E i \in 1..Len(data.transactions) : data.transactions[i].id = id
    /\ SetData([data EXCEPT !.transactions =
                   [i \in 1..Len(@) |->
                       IF @[i].id = id
                       THEN [@[i] EXCEPT !.amount = amount, !.type = type]
                       ELSE @[i]]])
    /\ UNCHANGED now

\* deleteTransaction(id), of the component.
componentDeleteTransaction(id) ==
    /\ \E i \in 1..Len(data.transactions) : data.transactions[i].id = id
    /\ LET Other(t) == t.id /= id
       IN  SetData([data EXCEPT !.transactions = SelectSeq(@, Other)])
    /\ UNCHANGED now

\* setCurrentMonth: the previous, next and Today buttons. monthKey changes,
\* so both effects are to run after the render.
SetCurrentMonth(ym) ==
    /\ Settled
    /\ ym \in ComponentMonths
    /\ year' = ym[1] /\ month' = ym[2]
    /\ effects' = MonthEffects
    /\ left' = [k \in DOMAIN left \cup {monthKeyString(year, month)} |->
                  IF k = monthKeyString(year, month) THEN data ELSE left[k]]
    /\ UNCHANGED <<data, localStorage, queued, dataOf, now>>
    /\ ComponentFrame

NextComponent ==
    \/ RunLoadEffect
    \/ RunSaveEffect
    \/ RenderLoaded
    \/ \E val \in {500, NaN} : handleStartingBalanceChange(val)
    \/ \E type \in {"income", "expense"} : addTransaction(type)
    \/ \E n \in 1..MaxAdds : updateTransaction(TxnIdAt(n), 25, "expense")
    \/ \E n \in 1..MaxAdds : componentDeleteTransaction(TxnIdAt(n))
    \/ \E delta \in {-1, 1} : SetCurrentMonth(addMonths(year, month, delta))
    \/ SetCurrentMonth(<<Today.year, Today.month>>)

SpecComponent == InitComponent /\ [][NextComponent]_vars

----------------------------------------------------------------------------
(* Claims on CashflowCalendar's month storage *)

\* C26: in CashflowCalendar, data entered for a month survives navigation.
\* When the load and save effects have run after each render, a month that
\* was left and not edited since shows, once displayed again, the starting
\* balance, transactions and rules it had when it was left, and storage
\* holds them for it whether or not it is displayed.
C26_SurvivesNavigation ==
    Settled =>
        \A ym \in ComponentMonths :
            monthKeyString(ym[1], ym[2]) \in DOMAIN left =>
                /\ loadMonth(localStorage, ym[1], ym[2]) = left[monthKeyString(ym[1], ym[2])]
                /\ (ym = <<year, month>> => data = left[monthKeyString(ym[1], ym[2])])

\* Back on a month that was left with a transaction and a starting balance,
\* after another month, which has stored rules, was visited and edited.
C26_Witness ==
    /\ Settled
    /\ monthKeyString(year, month) \in DOMAIN left
    /\ Len(data.transactions) = 1
    /\ data.startingBalance = 500
    /\ \E ym \in ComponentMonths \ {<<year, month>>} :
          /\ monthKeyString(ym[1], ym[2]) \in DOMAIN left
          /\ left[monthKeyString(ym[1], ym[2])].startingBalance = 500
          /\ left[monthKeyString(ym[1], ym[2])].rules /= <<>>

\* C27: in CashflowCalendar, no step of a month navigation writes the data of
\* the previously displayed month to storage under the key of the newly
\* displayed month: whenever the save effect writes, the data it writes was
\* loaded for the month whose key it writes under (or is the initial data).
C27_NoWriteUnderNewKey ==
    [][(effects /= <<>> /\ Head(effects) = "save" /\ effects' = Tail(effects)
        /\ dataOf /= <<>>)
       => dataOf = <<monthKeyString(year, month)>>]_vars

----------------------------------------------------------------------------
(* The Basiq import route, src/unnamed/part_003, over supabase-schema.sql *)

MaxBasiqTxns == 2

Users == {"u1", "u2"}
BasiqIds == {"b1", "b2"}
ImportRequests == {1, 2}

\* The lists of at most n Basiq transactions a fetch may return.
BasiqResults(n) == UNION {[1..k -> BasiqIds] : k \in 0..n}

\* A row of transactions as the route inserts it; id is gen_random_uuid().
ImportedRow(id, uid, basiqId) == [id |-> id, user_id |-> uid, basiq_id |-> <<basiqId>>]

\* select('id').eq('user_id', ...).eq('basiq_id', ...)
Matching(rows, uid, basiqId) ==
    {i \in 1..Len(rows) : rows[i].user_id = uid /\ rows[i].basiq_id = <<basiqId>>}

\* .single(): the row when exactly one matches, otherwise an error and no data.
SelectSingle(rows, uid, basiqId) ==
    IF Cardinality(Matching(rows, uid, basiqId)) = 1
    THEN <<rows[CHOOSE i \in Matching(rows, uid, basiqId) : TRUE]>>
    ELSE <<>>

\* The rows an earlier import may have left.
EarlierRows ==
    {<<>>,
     <<ImportedRow(<<0, 1>>, "u1", "b1")>>,
     <<ImportedRow(<<0, 1>>, "u2", "b1")>>}

InitImport ==
    /\ data = EmptyData /\ year = 2024 /\ month = 0
    /\ ExpanderIdle
    /\ PageAt(2024, 0, FALSE)
    /\ occurrences = <<>> /\ rendered = <<>>
    /\ localStorage = <<>> /\ effects = <<>> /\ queued = <<>>
    /\ left = <<>> /\ dataOf = <<>> /\ now = 0
    /\ \E rows \in EarlierRows :
          tables = [transactions |-> rows, recurring_rules |-> <<>>, app_settings |-> <<>>]
    /\ imports = [r \in ImportRequests |-> [pc |-> "idle"]]
    /\ importCall = [pc |-> "idle"]
    /\ user = FALSE /\ accessToken = <<>> /\ loading = FALSE /\ error = <<>>
    /\ inflight = {} /\ effectPending = FALSE
    /\ autoRequests = 0 /\ failedSinceAction = FALSE

ImportFrame == UNCHANGED <<localVars, importCall, basiqVars>>

\* POST up to the loop: the Basiq transactions are fetched and transformed
\* and the Supabase user is resolved from the bearer token.
POST(r, uid, fetched) ==
    /\ imports[r].pc = "idle"
    /\ imports' = [imports EXCEPT ![r] =
                      [pc |-> "check", user |-> uid, todo |-> fetched, saved |-> 0]]
    /\ UNCHANGED tables
    /\ ImportFrame

\* The loop's select: `continue` when a row exists, else go on to the insert.
CheckExisting(r) ==
    /\ imports[r].pc = "check"
    /\ imports[r].todo /= <<>>
    /\ LET existing == SelectSingle(tables.transactions, imports[r].user,
                                    Head(imports[r].todo))
       IN  imports' = [imports EXCEPT ![r] =
                          IF existing /= <<>>
                          THEN [@ EXCEPT !.todo = Tail(@)]
                          ELSE [@ EXCEPT !.pc = "insert"]]
    /\ UNCHANGED tables
    /\ ImportFrame

\* The loop's insert; on an error the loop continues with nothing saved.
InsertTransaction(r, ok) ==
    /\ imports[r].pc = "insert"
    /\ LET row == ImportedRow(<<r, Len(imports[r].todo)>>, imports[r].user,
                              Head(imports[r].todo))
       IN  tables' = [tables EXCEPT !.transactions = IF ok THEN Append(@, row) ELSE @]
    /\ imports' = [imports EXCEPT ![r] =
                      [@ EXCEPT !.pc = "check", !.todo = Tail(@),
                                !.saved = IF ok THEN @ + 1 ELSE @]]
    /\ ImportFrame

\* The response, once the loop is through.
Respond(r) ==
    /\ imports[r].pc = "check"
    /\ imports[r].todo = <<>>
    /\ imports' = [imports EXCEPT ![r].pc = "responded"]
    /\ UNCHANGED tables
    /\ ImportFrame

NextImport ==
    \E r \in ImportRequests :
        \/ \E uid \in Users, fetched \in BasiqResults(MaxBasiqTxns) : POST(r, uid, fetched)
        \/ CheckExisting(r)
        \/ \E ok \in BOOLEAN : InsertTransaction(r, ok)
        \/ Respond(r)

SpecImport == InitImport /\ [][NextImport]_vars

----------------------------------------------------------------------------
(* Claims on the Basiq import *)

\* C21: bank import never stores the same Basiq transaction twice: after any
\* number of import requests for the same user, concurrent ones with
\* overlapping result sets included, the transactions table holds at most
\* one row per (user_id, basiq_id).
C21_NoDuplicateRows ==
    \A i, j \in 1..Len(tables.transactions) :
        (/\ tables.transactions[i].user_id = tables.transactions[j].user_id
         /\ tables.transactions[i].basiq_id = tables.transactions[j].basiq_id
         /\ tables.transactions[i].basiq_id /= <<>>)
        => i = j

----------------------------------------------------------------------------
(* SupabaseStorage.importData, src/unnamed/part_001 *)

\* Rows as exportData returns them and importData inserts them.
StoredRow(id, uid) == [id |-> id, user_id |-> uid, basiq_id |-> <<>>]

\* The signed-in user, whose rows row level security lets the client see.
CurrentUser == "u1"

Visible(row) == row.user_id = CurrentUser
Hidden(row) == ~Visible(row)

Ids(rows) == {rows[i].id : i \in 1..Len(rows)}

StoredTransactions ==
    {<<>>,
     <<StoredRow("t1", "u1")>>,
     <<StoredRow("t1", "u1"), StoredRow("t9", "u2")>>}

StoredRules == {<<>>, <<StoredRow("r1", "u1")>>}

ImportFiles ==
    [transactions : {<<>>, <<StoredRow("t1", "u1")>>, <<StoredRow("t2", "u1")>>},
     recurringRules : {<<>>, <<StoredRow("r2", "u1")>>},
     settings : {<<>>, <<"app_state">>}]

InitSupabase ==
    /\ data = EmptyData /\ year = 2024 /\ month = 0
    /\ ExpanderIdle
    /\ PageAt(2024, 0, FALSE)
    /\ occurrences = <<>> /\ rendered = <<>>
    /\ localStorage = <<>> /\ effects = <<>> /\ queued = <<>>
    /\ left = <<>> /\ dataOf = <<>> /\ now = 0
    /\ \E rows \in StoredTransactions, rules \in StoredRules :
          tables = [transactions |-> rows, recurring_rules |-> rules, app_settings |-> <<>>]
    /\ imports = <<>>
    /\ importCall = [pc |-> "idle"]
    /\ user = FALSE /\ accessToken = <<>> /\ loading = FALSE /\ error = <<>>
    /\ inflight = {} /\ effectPending = FALSE
    /\ autoRequests = 0 /\ failedSinceAction = FALSE

SupabaseFrame == UNCHANGED <<localVars, imports, basiqVars>>

\* importData(data) is called; the stored rows are remembered in `before`.
CallImportData(file) ==
    /\ importCall.pc = "idle"
    /\ importCall' = [pc |-> "deleteTransactions", data |-> file, result |-> <<>>,
                      before |-> tables]
    /\ UNCHANGED tables
    /\ SupabaseFrame

\* from('transactions').delete().neq('id', ...): its error is not looked at.
DeleteTransactions(ok) ==
    /\ importCall.pc = "deleteTransactions"
    /\ tables' = [tables EXCEPT !.transactions = IF ok THEN SelectSeq(@, Hidden) ELSE @]
    /\ importCall' = [importCall EXCEPT !.pc = "deleteRules"]
    /\ SupabaseFrame

\* from('recurring_rules').delete().neq('id', ...)
DeleteRules(ok) ==
    /\ importCall.pc = "deleteRules"
    /\ tables' = [tables EXCEPT !.recurring_rules = IF ok THEN SelectSeq(@, Hidden) ELSE @]
    /\ importCall' = [importCall EXCEPT !.pc = "insertTransactions"]
    /\ SupabaseFrame

\* An insert succeeds only if no row has one of the new primary keys; it
\* may also fail for reasons of the server's.
Inserted(rows, new, ok) == ok /\ Ids(rows) \cap Ids(new) = {}

\* The insert of data.transactions; an error is thrown to the catch, which
\* returns false.
InsertTransactions(ok) ==
    /\ importCall.pc = "insertTransactions"
    /\ LET new == importCall.data.transactions
       IN  IF new = <<>>
           THEN /\ importCall' = [importCall EXCEPT !.pc = "insertRules"]
                /\ UNCHANGED tables
           ELSE IF Inserted(tables.transactions, new, ok)
           THEN /\ tables' = [tables EXCEPT !.transactions = @ \o new]
                /\ importCall' = [importCall EXCEPT !.pc = "insertRules"]
           ELSE /\ importCall' = [importCall EXCEPT !.pc = "returned", !.result = <<FALSE>>]
                /\ UNCHANGED tables
    /\ SupabaseFrame

\* The insert of data.recurringRules.
InsertRules(ok) ==
    /\ importCall.pc = "insertRules"
    /\ LET new == importCall.data.recurringRules
       IN  IF new = <<>>
           THEN /\ importCall' = [importCall EXCEPT !.pc = "saveAppSettings"]
                /\ UNCHANGED tables
           ELSE IF Inserted(tables.recurring_rules, new, ok)
           THEN /\ tables' = [tables EXCEPT !.recurring_rules = @ \o new]
                /\ importCall' = [importCall EXCEPT !.pc = "saveAppSettings"]
           ELSE /\ importCall' = [importCall EXCEPT !.pc = "returned", !.result = <<FALSE>>]
                /\ UNCHANGED tables
    /\ SupabaseFrame

\* if (data.settings) await this.saveAppSettings(data.settings); return true.
\* What saveAppSettings returns is not looked at.
SaveAppSettings(ok) ==
    /\ importCall.pc = "saveAppSettings"
    /\ tables' = [tables EXCEPT !.app_settings =
                     IF importCall.data.settings /= <<>> /\ ok
                     THEN importCall.data.settings ELSE @]
    /\ importCall' = [importCall EXCEPT !.pc = "returned", !.result = <<TRUE>>]
    /\ SupabaseFrame

NextSupabase ==
    \/ \E file \in ImportFiles : CallImportData(file)
    \/ \E ok \in BOOLEAN : DeleteTransactions(ok)
    \/ \E ok \in BOOLEAN : DeleteRules(ok)
    \/ \E ok \in BOOLEAN : InsertTransactions(ok)
    \/ \E ok \in BOOLEAN : InsertRules(ok)
    \/ \E ok \in BOOLEAN : SaveAppSettings(ok)

SpecSupabase == InitSupabase /\ [][NextSupabase]_vars

----------------------------------------------------------------------------
(* Claims on SupabaseStorage.importData *)

\* C29: SupabaseStorage.importData is all-or-nothing: if inserting the
\* imported transactions or rules fails, importData returns false and the
\* previously stored transactions and rules are unchanged.
C29_AllOrNothing ==
    (importCall.pc = "returned" /\ importCall.result = <<FALSE>>) =>
        /\ tables.transactions = importCall.before.transactions
        /\ tables.recurring_rules = importCall.before.recurring_rules

----------------------------------------------------------------------------
(* BasiqProvider, src/lib/contexts/BasiqContext.tsx *)

MaxAuthRequests == 3

InitBasiq ==
    /\ data = EmptyData /\ year = 2024 /\ month = 0
    /\ ExpanderIdle
    /\ PageAt(2024, 0, FALSE)
    /\ occurrences = <<>> /\ rendered = <<>>
    /\ localStorage = <<>> /\ effects = <<>> /\ queued = <<>>
    /\ left = <<>> /\ dataOf = <<>> /\ now = 0
    /\ tables = [transactions |-> <<>>, recurring_rules |-> <<>>, app_settings |-> <<>>]
    /\ imports = <<>>
    /\ importCall = [pc |-> "idle"]
    /\ user \in BOOLEAN
    /\ accessToken = <<>>
    /\ loading = FALSE
    /\ error = <<>>
    /\ inflight = {}
    /\ effectPending = TRUE
    /\ autoRequests = 0
    /\ failedSinceAction = FALSE

BasiqFrame == UNCHANGED <<localVars, dbVars>>

\* An operation up to its await: setLoading(true), setError(null), fetch.
\* The render that follows has a new `loading`, so the effect is to run.
\* At most one fetch of a kind is followed at a time.
StartFetch(kind) ==
    /\ kind \notin inflight
    /\ loading' = TRUE
    /\ error' = <<>>
    /\ inflight' = inflight \cup {kind}
    /\ effectPending' = TRUE

\* The auto-authenticate effect, run after a render that changed one of
\* user, accessToken, loading, authenticate.
RunAutoAuthenticate ==
    /\ effectPending
    /\ IF user /\ accessToken = <<>> /\ ~loading
       THEN /\ autoRequests < MaxAuthRequests
            /\ StartFetch("auth")
            /\ autoRequests' = autoRequests + 1
       ELSE /\ effectPending' = FALSE
            /\ UNCHANGED <<loading, error, inflight, autoRequests>>
    /\ UNCHANGED <<user, accessToken, failedSinceAction>>
    /\ BasiqFrame

\* authenticate from its await on: the token is kept or the error recorded,
\* and finally setLoading(false).
AuthResponse(ok) ==
    /\ "auth" \in inflight
    /\ inflight' = inflight \ {"auth"}
    /\ accessToken' = IF ok THEN <<"token">> ELSE accessToken
    /\ error' = IF ok THEN error ELSE <<"Failed to authenticate">>
    /\ loading' = FALSE
    /\ effectPending' = TRUE
    /\ failedSinceAction' = (failedSinceAction \/ ~ok)
    /\ UNCHANGED <<user, autoRequests>>
    /\ BasiqFrame

\* The user clicks the button whose onClick is authenticate.
ClickAuthenticate ==
    /\ ~loading
    /\ StartFetch("auth")
    /\ failedSinceAction' = FALSE
    /\ UNCHANGED <<user, accessToken, autoRequests>>
    /\ BasiqFrame

\* fetchInstitutions up to its await, called by a consumer of the context.
fetchInstitutions ==
    /\ IF accessToken = <<>>
       THEN /\ error' = <<"Not authenticated with Basiq">>
            /\ UNCHANGED <<loading, inflight, effectPending>>
       ELSE StartFetch("institutions")
    /\ UNCHANGED <<user, accessToken, autoRequests, failedSinceAction>>
    /\ BasiqFrame

\* fetchInstitutions from its await on.
InstitutionsResponse(ok) ==
    /\ "institutions" \in inflight
    /\ inflight' = inflight \ {"institutions"}
    /\ error' = IF ok THEN error ELSE <<"Failed to fetch institutions">>
    /\ loading' = FALSE
    /\ effectPending' = TRUE
    /\ UNCHANGED <<user, accessToken, autoRequests, failedSinceAction>>
    /\ BasiqFrame

\* The user dismisses the error: clearError. error is no dependency of the
\* effect.
clearError ==
    /\ error /= <<>>
    /\ error' = <<>>
    /\ failedSinceAction' = FALSE
    /\ UNCHANGED <<user, accessToken, loading, inflight, effectPending, autoRequests>>
    /\ BasiqFrame

\* useAuth's user becomes available.
SignIn ==
    /\ ~user
    /\ user' = TRUE
    /\ effectPending' = TRUE
    /\ failedSinceAction' = FALSE
    /\ UNCHANGED <<accessToken, loading, error, inflight, autoRequests>>
    /\ BasiqFrame

NextBasiq ==
    \/ RunAutoAuthenticate
    \/ \E ok \in BOOLEAN : AuthResponse(ok)
    \/ ClickAuthenticate
    \/ fetchInstitutions
    \/ \E ok \in BOOLEAN : InstitutionsResponse(ok)
    \/ clearError
    \/ SignIn

SpecBasiq == InitBasiq /\ [][NextBasiq]_vars

----------------------------------------------------------------------------
(* Claims on BasiqProvider *)

\* C30: in BasiqProvider, with a signed-in user and no access token,
\* automatic authentication quiesces: once /api/basiq/auth has failed and
\* the error is recorded, the provider issues no further authentication
\* request until the user acts.
C30_Quiesces ==
    [][failedSinceAction => autoRequests' = autoRequests]_vars

====
